---- MODULE Spec2Model ----
(***************************************************************************)
(* A model of treeano's Network / RelativeNetwork (treeano/core/network.py):*)
(* the build state machine, the keyed dependency graph, the per-node state *)
(* store and the hyperparameter search.                                    *)
(***************************************************************************)
EXTENDS Integers, Sequences, FiniteSets, TLC

VARIABLES
    is_built,                 \* hasattr(network, "graph")
    pc,                       \* position of build(): the phase it is in
    idx,                      \* position of the running phase's loop
    inHook,                   \* a node hook is running (called by build())
    is_mutable,               \* graph.is_mutable
    edges,                    \* dependency edges of the computation graph
    order,                    \* node sequence of the output-computation loop
    log,                      \* events of build(): hook calls and the freeze
    rules_written,            \* which hook has written a rule for which variable
    current_variables,        \* node_state[n]["current_variables"]
    original_variables,       \* node_state[n]["original_variables"]
    additional_data,          \* node_state[n]["additional_data"]
    set_hyperparameters,      \* node_state[n]["set_hyperparameters"]
    update_deltas,            \* network.update_deltas
    override_hyperparameters, \* network.override_hyperparameters
    default_hyperparameters,  \* network.default_hyperparameters
    node_hyperparameters,     \* what node.get_hyperparameter provides
    inputs,                   \* node_state[n]["inputs"]
    root_node,                \* network.root_node: the architecture tree
    lastOp,                   \* the last call made and its outcome
    entry                     \* the call on the network that waits for build()

vars == <<is_built, pc, idx, inHook, is_mutable, edges, order, log,
          rules_written,
          current_variables, original_variables, additional_data,
          set_hyperparameters, update_deltas, override_hyperparameters,
          default_hyperparameters, node_hyperparameters, inputs, root_node,
          lastOp, entry>>

graphVars == <<is_mutable, edges>>
buildVars == <<is_built, pc, idx, inHook, order, log, rules_written, entry>>
storeVars == <<current_variables, original_variables, additional_data,
               set_hyperparameters, update_deltas, inputs>>
hpVars == <<override_hyperparameters, default_hyperparameters,
            node_hyperparameters>>

----------------------------------------------------------------------------
(* The architecture trees handed to Network(root_node): name of the root   *)
(* and each node's architecture_children().                                *)

\* SequentialNode("seq", [InputNode("i"), LinearMappingNode("lm")])
SeqTree ==
    [root |-> "seq",
     children |-> [seq |-> <<"i", "lm">>, i |-> <<>>, lm |-> <<>>]]

\* SequentialNode("seq", [LinearMappingNode("lm")])
PairTree ==
    [root |-> "seq", children |-> [seq |-> <<"lm">>, lm |-> <<>>]]

\* a node in a container in a container: the path from a DenseNode "fc"
\* through its SequentialNode to its LinearMappingNode
ChainTree ==
    [root |-> "fc",
     children |-> [fc |-> <<"fc_sequential">>,
                   fc_sequential |-> <<"fc_linear">>,
                   fc_linear |-> <<>>]]

\* SequentialNode("seq", [DenseNode("fc")]) with the children a DenseNode
\* gives itself: a SequentialNode of a flatten, a linear and a bias node
DenseTree ==
    [root |-> "seq",
     children |-> [seq |-> <<"fc">>,
                   fc |-> <<"fc_sequential">>,
                   fc_sequential |-> <<"fc_flatten", "fc_linear", "fc_bias">>,
                   fc_flatten |-> <<>>,
                   fc_linear |-> <<>>,
                   fc_bias |-> <<>>]]

Root == root_node.root

Nodes == DOMAIN root_node.children

architecture_children(n) == root_node.children[n]

PortKeys == {"default"}

EmptyMap == <<>>

Put(m, k, v) == [x \in (DOMAIN m) \cup {k} |-> IF x = k THEN v ELSE m[x]]

SeqToSet(s) == {s[i] : i \in DOMAIN s}

----------------------------------------------------------------------------
(* TreeanoGraph (treeano/core/graph.py).                                   *)

RECURSIVE PreOrder(_)
PreOrder(forest) ==
    IF forest = <<>> THEN <<>>
    ELSE <<Head(forest)>> \o PreOrder(architecture_children(Head(forest)))
                          \o PreOrder(Tail(forest))

architectural_tree_nodes_root_to_leaves == PreOrder(<<Root>>)

ArchIndex(n) ==
    CHOOSE i \in DOMAIN architectural_tree_nodes_root_to_leaves :
        architectural_tree_nodes_root_to_leaves[i] = n

ParentOf(n) == CHOOSE m \in Nodes : n \in SeqToSet(architecture_children(m))

RECURSIVE architecture_ancestors(_)
architecture_ancestors(n) ==
    IF n = Root THEN <<>>
    ELSE <<ParentOf(n)>> \o architecture_ancestors(ParentOf(n))

Edge(f, t, fk, tk) == [from |-> f, to |-> t, from_key |-> fk, to_key |-> tk]

Preds(E, n) == {e.from : e \in {x \in E : x.to = n}}

\* nodes reachable from n along the edges of E (n itself included)
RECURSIVE ReachFrom(_, _)
ReachFrom(E, S) ==
    LET S2 == S \cup {e.to : e \in {x \in E : x.from \in S}}
    IN IF S2 = S THEN S ELSE ReachFrom(E, S2)

HasCycle(E) == \E e \in E : e.from \in ReachFrom(E, {e.to})

\* topological order of the computation graph, ties in declaration order
RECURSIVE TopoFrom(_, _)
TopoFrom(placed, E) ==
    LET ready == {n \in Nodes \ SeqToSet(placed) :
                      Preds(E, n) \subseteq SeqToSet(placed)}
    IN IF ready = {} THEN placed
       ELSE LET n == CHOOSE r \in ready :
                         \A q \in ready : ArchIndex(r) <= ArchIndex(q)
            IN TopoFrom(Append(placed, n), E)

computation_graph_nodes_topological == TopoFrom(<<>>, edges)

\* the (from_name, from_key) pairs that supply port to_key of node n
input_edges_for_node(n, to_key) ==
    {e \in edges : e.to = n /\ e.to_key = to_key}

----------------------------------------------------------------------------
(* Network.build (network.py 40-118) as a process: pc is the phase, idx    *)
(* the position of the phase's loop, inHook whether a node hook runs.      *)

HookPhases == {"init_long_range_dependencies", "init_state",
               "compute_output", "mutate_update_deltas"}

Returned == {"built", "aborted"}

OpVal(name, n, a, ok, v) ==
    [op |-> name, node |-> n, args |-> a, ok |-> ok, val |-> v]

Op(name, n, a, ok) == OpVal(name, n, a, ok, "")

NoOp == Op("none", "", <<>>, TRUE)

\* no call on the network is waiting for build() to return
NoEntry == <<>>

\* lastOp holds the outcome of a call (build() or a call through a view)
\* until its caller has taken it; no other step happens in between
Idle == lastOp = NoOp

TakeOutcome ==
    /\ ~Idle
    /\ lastOp' = NoOp
    /\ UNCHANGED <<buildVars, graphVars, storeVars, hpVars, root_node>>

Event(ev, n) == [ev |-> ev, node |-> n]

\* the keyword arguments create_variable is called with for a local name:
\* a parameter is made shared and tagged as one, an output is not
tags_for(local) ==
    IF local = "default" THEN {"output"} ELSE {"parameter", local}

is_shared_for(local) == local # "default"

\* a wrapper named by the node alone
Variable_unqualified(n, local, ver) ==
    [name |-> n, ver |-> ver, variable |-> n,
     tags |-> tags_for(local), is_shared |-> is_shared_for(local) /\ ver = 0]

\* a VariableWrapper: its composite name "%s:%s" % (node name, local name),
\* the variable it wraps, its tags and whether it is shared; ver 0 is the
\* object create_variable makes, any other a different object of that
\* name, which wraps a variable that is not shared
Variable(n, local, ver) ==
    [name |-> n \o ":" \o local, ver |-> ver,
     variable |-> n \o ":" \o local,
     tags |-> tags_for(local), is_shared |-> is_shared_for(local) /\ ver = 0]

\* a build() that locks the graph before the state-init loop
PhaseAfter_freeze_early(p) ==
    CASE p = "init_long_range_dependencies" -> "freeze"
      [] p = "freeze" -> "init_state"
      [] p = "init_state" -> "compute_output"
      [] p = "compute_output" -> "mutate_update_deltas"
      [] OTHER -> "built"

\* the phase build() runs after the loop of phase p
PhaseAfter(p) ==
    CASE p = "init_long_range_dependencies" -> "init_state"
      [] p = "init_state" -> "freeze"
      [] p = "freeze" -> "compute_output"
      [] p = "compute_output" -> "mutate_update_deltas"
      [] OTHER -> "built"

\* an output loop that walks the architecture tree instead
ComputeOrder_architectural == architectural_tree_nodes_root_to_leaves

\* the node sequence the output-computation loop walks
ComputeOrder == computation_graph_nodes_topological

\* the node sequence the loop of phase p walks
\* an update loop that walks the architecture tree from the leaves up
PhaseNodes_leaves_first(p) ==
    IF p = "compute_output" THEN order
    ELSE IF p = "mutate_update_deltas"
    THEN [i \in DOMAIN architectural_tree_nodes_root_to_leaves |->
             architectural_tree_nodes_root_to_leaves[
                 Len(architectural_tree_nodes_root_to_leaves) + 1 - i]]
    ELSE architectural_tree_nodes_root_to_leaves

\* the node sequence the loop of phase p walks
PhaseNodes(p) ==
    IF p = "compute_output" THEN order
    ELSE architectural_tree_nodes_root_to_leaves

HookNode == PhaseNodes(pc)[idx]

\* a build() that holds no graph attribute while its loops run
build_unflagged ==
    /\ Idle
    /\ lastOp' = Op("build", "", <<>>, TRUE)
    /\ IF is_built
       THEN UNCHANGED <<buildVars, graphVars, storeVars>>
       ELSE /\ is_built' = FALSE
            /\ is_mutable' = TRUE
            /\ edges' = {}
            /\ current_variables' = [n \in Nodes |-> EmptyMap]
            /\ original_variables' = [n \in Nodes |-> EmptyMap]
            /\ additional_data' = [n \in Nodes |-> EmptyMap]
            /\ set_hyperparameters' = [n \in Nodes |-> EmptyMap]
            /\ inputs' = [n \in Nodes |-> EmptyMap]
            /\ pc' = "init_long_range_dependencies"
            /\ idx' = 1
            /\ UNCHANGED <<inHook, order, log, rules_written, entry, update_deltas>>
    /\ UNCHANGED <<hpVars, root_node>>

\* a build() without its is_built guard
build_unguarded ==
    /\ Idle
    /\ lastOp' = Op("build", "", <<>>, TRUE)
    /\ is_built' = TRUE
    /\ is_mutable' = TRUE
    /\ edges' = {}
    /\ current_variables' = [n \in Nodes |-> EmptyMap]
    /\ original_variables' = [n \in Nodes |-> EmptyMap]
    /\ additional_data' = [n \in Nodes |-> EmptyMap]
    /\ set_hyperparameters' = [n \in Nodes |-> EmptyMap]
    /\ inputs' = [n \in Nodes |-> EmptyMap]
    /\ pc' = "init_long_range_dependencies"
    /\ idx' = 1
    /\ inHook' = FALSE
    /\ UNCHANGED <<order, log, rules_written, entry, update_deltas, hpVars,
                   root_node>>

\* build() itself, up to its first loop: a no-op once a graph exists
build ==
    /\ Idle
    /\ lastOp' = Op("build", "", <<>>, TRUE)
    /\ IF is_built
       THEN UNCHANGED <<buildVars, graphVars, storeVars>>
       ELSE /\ is_built' = TRUE
            /\ is_mutable' = TRUE
            /\ edges' = {}
            /\ current_variables' = [n \in Nodes |-> EmptyMap]
            /\ original_variables' = [n \in Nodes |-> EmptyMap]
            /\ additional_data' = [n \in Nodes |-> EmptyMap]
            /\ set_hyperparameters' = [n \in Nodes |-> EmptyMap]
            /\ inputs' = [n \in Nodes |-> EmptyMap]
            /\ pc' = "init_long_range_dependencies"
            /\ idx' = 1
            /\ UNCHANGED <<inHook, order, log, rules_written, entry, update_deltas>>
    /\ UNCHANGED <<hpVars, root_node>>

\* an exception leaves a running hook: build() ends there
Abort ==
    /\ pc' = "aborted"
    /\ inHook' = FALSE
    /\ UNCHANGED <<is_built, idx, order, log, rules_written, entry>>

\* a call made through a view raised: a hook either lets it through or
\* catches it; outside build() it reaches the caller
Raise(caught) ==
    IF inHook /\ ~caught THEN Abort ELSE UNCHANGED buildVars

\* node.init_long_range_dependencies / init_state / mutate_update_deltas
\* is invoked for the next node of the loop
CallHook ==
    /\ Idle
    /\ pc \in HookPhases \ {"compute_output"}
    /\ ~inHook
    /\ inHook' = TRUE
    /\ log' = Append(log, Event(pc, HookNode))
    /\ UNCHANGED lastOp
    /\ UNCHANGED <<is_built, pc, idx, order, rules_written, entry, graphVars,
                   storeVars, hpVars, root_node>>

InputKeyLists == {<<>>, <<"default">>}

\* edge choices that resolve every input key to an upstream variable
Resolutions(n, keys) ==
    {ch \in [DOMAIN keys -> edges] :
        \A i \in DOMAIN keys :
            /\ ch[i] \in input_edges_for_node(n, keys[i])
            /\ ch[i].from_key \in DOMAIN current_variables[ch[i].from]}

\* some input key has no incoming edge, or its upstream variable is missing
Unresolved(n, keys) ==
    \E i \in DOMAIN keys :
        \/ input_edges_for_node(n, keys[i]) = {}
        \/ \E e \in input_edges_for_node(n, keys[i]) :
               e.from_key \notin DOMAIN current_variables[e.from]

\* an output loop that hands None to the hook for an input it cannot find
CallComputeOutput_lenient ==
    /\ Idle
    /\ pc = "compute_output"
    /\ ~inHook
    /\ \E keys \in InputKeyLists :
        \/ /\ \E ch \in Resolutions(HookNode, keys) :
                 inputs' = [inputs EXCEPT ![HookNode] =
                     [k \in SeqToSet(keys) |->
                         LET i == CHOOSE j \in DOMAIN keys : keys[j] = k
                         IN current_variables[ch[i].from][ch[i].from_key]]]
           /\ inHook' = TRUE
           /\ log' = Append(log, Event(pc, HookNode))
           /\ UNCHANGED lastOp
           /\ UNCHANGED <<is_built, pc, idx, order, rules_written, entry>>
        \/ /\ Unresolved(HookNode, keys)
           /\ inputs' = [inputs EXCEPT ![HookNode] =
                  [k \in SeqToSet(keys) |-> "None"]]
           /\ inHook' = TRUE
           /\ log' = Append(log, Event(pc, HookNode))
           /\ UNCHANGED lastOp
           /\ UNCHANGED <<is_built, pc, idx, order, rules_written, entry>>
    /\ UNCHANGED <<graphVars, current_variables, original_variables,
                   additional_data, set_hyperparameters, update_deltas,
                   hpVars, root_node>>

\* an output loop that hands over the first-created upstream variable
CallComputeOutput_original ==
    /\ Idle
    /\ pc = "compute_output"
    /\ ~inHook
    /\ \E keys \in InputKeyLists :
        \/ /\ \E ch \in Resolutions(HookNode, keys) :
                 inputs' = [inputs EXCEPT ![HookNode] =
                     [k \in SeqToSet(keys) |->
                         LET i == CHOOSE j \in DOMAIN keys : keys[j] = k
                         IN original_variables[ch[i].from][ch[i].from_key]]]
           /\ inHook' = TRUE
           /\ log' = Append(log, Event(pc, HookNode))
           /\ UNCHANGED lastOp
           /\ UNCHANGED <<is_built, pc, idx, order, rules_written, entry>>
        \/ /\ Unresolved(HookNode, keys)
           /\ Abort
           /\ lastOp' = Op("lookup_inputs", HookNode, keys, FALSE)
           /\ UNCHANGED inputs
    /\ UNCHANGED <<graphVars, current_variables, original_variables,
                   additional_data, set_hyperparameters, update_deltas,
                   hpVars, root_node>>

\* one round of the output loop up to the call of node.compute_output
CallComputeOutput ==
    /\ Idle
    /\ pc = "compute_output"
    /\ ~inHook
    /\ \E keys \in InputKeyLists :
        \/ /\ \E ch \in Resolutions(HookNode, keys) :
                 inputs' = [inputs EXCEPT ![HookNode] =
                     [k \in SeqToSet(keys) |->
                         LET i == CHOOSE j \in DOMAIN keys : keys[j] = k
                         IN current_variables[ch[i].from][ch[i].from_key]]]
           /\ inHook' = TRUE
           /\ log' = Append(log, Event(pc, HookNode))
           /\ UNCHANGED lastOp
           /\ UNCHANGED <<is_built, pc, idx, order, rules_written, entry>>
        \/ /\ Unresolved(HookNode, keys)
           /\ Abort
           /\ lastOp' = Op("lookup_inputs", HookNode, keys, FALSE)
           /\ UNCHANGED inputs
    /\ UNCHANGED <<graphVars, current_variables, original_variables,
                   additional_data, set_hyperparameters, update_deltas,
                   hpVars, root_node>>

\* a build() that notes a returned value and goes on with its loop
ReturnHook_tolerant ==
    /\ Idle
    /\ inHook
    /\ \E returnsNone \in BOOLEAN :
        /\ IF pc = "compute_output" /\ ~returnsNone
           THEN lastOp' = Op("assert_output_res", "", <<>>, FALSE)
           ELSE returnsNone /\ UNCHANGED lastOp
        /\ inHook' = FALSE
        /\ IF idx < Len(PhaseNodes(pc))
           THEN idx' = idx + 1 /\ pc' = pc
           ELSE idx' = 1 /\ pc' = PhaseAfter(pc)
        /\ UNCHANGED <<is_built, order, log, rules_written, entry>>
    /\ UNCHANGED <<graphVars, storeVars, hpVars, root_node>>

\* the running hook returns; the loop moves on, and after its last node
\* build() goes to the next phase
ReturnHook ==
    /\ Idle
    /\ inHook
    /\ \E returnsNone \in BOOLEAN :
        IF pc = "compute_output" /\ ~returnsNone
        THEN /\ Abort
             /\ lastOp' = Op("assert_output_res", "", <<>>, FALSE)
        ELSE /\ returnsNone
             /\ inHook' = FALSE
             /\ IF idx < Len(PhaseNodes(pc))
                THEN idx' = idx + 1 /\ pc' = pc
                ELSE idx' = 1 /\ pc' = PhaseAfter(pc)
             /\ UNCHANGED lastOp
             /\ UNCHANGED <<is_built, order, log, rules_written, entry>>
    /\ UNCHANGED <<graphVars, storeVars, hpVars, root_node>>

\* a build() that forgets to lock the graph
Freeze_unlocked ==
    /\ Idle
    /\ pc = "freeze"
    /\ order' = ComputeOrder
    /\ log' = Append(log, Event("freeze", ""))
    /\ pc' = PhaseAfter(pc)
    /\ idx' = 1
    /\ UNCHANGED lastOp
    /\ UNCHANGED <<is_built, inHook, rules_written, entry, graphVars, storeVars,
                   hpVars, root_node>>

\* graph.is_mutable = False, then the output loop's order is taken
Freeze ==
    /\ Idle
    /\ pc = "freeze"
    /\ is_mutable' = FALSE
    /\ order' = ComputeOrder
    /\ log' = Append(log, Event("freeze", ""))
    /\ pc' = PhaseAfter(pc)
    /\ idx' = 1
    /\ UNCHANGED lastOp
    /\ UNCHANGED <<is_built, inHook, rules_written, entry, edges, storeVars,
                   hpVars, root_node>>

\* the shared variables that update rules are written for
SharedVariables == {"lm:weight"}

\* the running mutate_update_deltas hook writes its rule for variable var
\* into the delta set it was handed, over any rule var had
set_update_delta(var) ==
    /\ Idle
    /\ pc = "mutate_update_deltas"
    /\ inHook
    /\ <<HookNode, var>> \notin rules_written
    /\ update_deltas' = Put(update_deltas, var, HookNode)
    /\ rules_written' = rules_written \cup {<<HookNode, var>>}
    /\ UNCHANGED <<is_built, pc, idx, inHook, order, log, lastOp, entry,
                   graphVars,
                   current_variables, original_variables, additional_data,
                   set_hyperparameters, inputs, hpVars, root_node>>

----------------------------------------------------------------------------
(* Calls made through a RelativeNetwork (a view of node n).  A view exists *)
(* once the graph does: hooks hold one, and so does any caller of          *)
(* network[name] after build() has returned.                               *)

CanCall ==
    is_built /\ Idle /\ (inHook \/ (pc \in Returned /\ entry = NoEntry))

\* TreeanoGraph.add_dependency: refused once frozen, or if it closes a cycle
graph_can_add_dependency(f, t, fk, tk) ==
    /\ is_mutable
    /\ ~HasCycle(edges \cup {Edge(f, t, fk, tk)})

\* TreeanoGraph.remove_dependency: refused once frozen
graph_can_remove_dependency(f, t) == is_mutable

\* the body shared by every call that ends in graph.add_dependency; what
\* lastOp keeps of the call is the graph operation reached and its outcome
AddEdge(f, t, fk, tk) ==
    /\ IF graph_can_add_dependency(f, t, fk, tk)
       THEN /\ edges' = edges \cup {Edge(f, t, fk, tk)}
            /\ lastOp' = Op("add_dependency", "", <<>>, TRUE)
            /\ UNCHANGED buildVars
       ELSE /\ UNCHANGED edges
            /\ lastOp' = Op("add_dependency", "", <<>>, FALSE)
            /\ \E caught \in BOOLEAN : Raise(caught)
    /\ UNCHANGED <<is_mutable, storeVars, hpVars, root_node>>

add_dependency(from_name, to_name, from_key, to_key) ==
    /\ CanCall
    /\ AddEdge(from_name, to_name, from_key, to_key)

remove_dependency(from_name, to_name) ==
    /\ CanCall
    /\ IF graph_can_remove_dependency(from_name, to_name)
       THEN /\ edges' = {e \in edges :
                             ~(e.from = from_name /\ e.to = to_name)}
            /\ lastOp' = Op("remove_dependency", "", <<>>, TRUE)
            /\ UNCHANGED buildVars
       ELSE /\ UNCHANGED edges
            /\ lastOp' = Op("remove_dependency", "", <<>>, FALSE)
            /\ \E caught \in BOOLEAN : Raise(caught)
    /\ UNCHANGED <<is_mutable, storeVars, hpVars, root_node>>

take_output_from(n, node_name, from_key, to_key) ==
    /\ CanCall
    /\ AddEdge(node_name, n, from_key, to_key)

forward_output_to(n, node_name, from_key, to_key) ==
    /\ CanCall
    /\ AddEdge(n, node_name, from_key, to_key)

\* a forward_input_to that raises whenever the node has no input
forward_input_to_strict(n, node_name, previous_to_key, to_key, ignore_no_input) ==
    /\ CanCall
    /\ IF input_edges_for_node(n, previous_to_key) = {}
       THEN /\ lastOp' = Op("forward_input_to_none", n,
                            <<previous_to_key, ignore_no_input>>, FALSE)
            /\ \E caught \in BOOLEAN : Raise(caught)
            /\ UNCHANGED <<graphVars, storeVars, hpVars, root_node>>
       ELSE \E e \in input_edges_for_node(n, previous_to_key) :
                AddEdge(e.from, node_name,
                        e.from_key, to_key)

\* RelativeNetwork.forward_input_to: the edge that feeds port
\* previous_to_key of node n is made to feed node_name as well
forward_input_to(n, node_name, previous_to_key, to_key, ignore_no_input) ==
    /\ CanCall
    /\ IF input_edges_for_node(n, previous_to_key) = {}
       THEN /\ IF ignore_no_input
               THEN /\ lastOp' = Op("forward_input_to_none", n,
                                    <<previous_to_key, ignore_no_input>>,
                                    TRUE)
                    /\ UNCHANGED buildVars
               ELSE /\ lastOp' = Op("forward_input_to_none", n,
                                    <<previous_to_key, ignore_no_input>>,
                                    FALSE)
                    /\ \E caught \in BOOLEAN : Raise(caught)
            /\ UNCHANGED <<graphVars, storeVars, hpVars, root_node>>
       ELSE \E e \in input_edges_for_node(n, previous_to_key) :
                AddEdge(e.from, node_name,
                        e.from_key, to_key)

\* a create_variable without its two assertions
create_variable_overwriting(n, name) ==
    /\ CanCall
    /\ current_variables' = [current_variables EXCEPT
           ![n] = Put(@, name, Variable(n, name, 0))]
    /\ original_variables' = [original_variables EXCEPT
           ![n] = Put(@, name, Variable(n, name, 0))]
    /\ lastOp' = Op("create_variable", n, <<name>>, TRUE)
    /\ UNCHANGED <<buildVars, graphVars, additional_data,
                   set_hyperparameters, update_deltas, inputs, hpVars,
                   root_node>>

\* a create_variable that saves the variable as the current one only
create_variable_current_only(n, name) ==
    /\ CanCall
    /\ IF /\ name \notin DOMAIN current_variables[n]
          /\ name \notin DOMAIN original_variables[n]
       THEN /\ current_variables' = [current_variables EXCEPT
                    ![n] = Put(@, name, Variable(n, name, 0))]
            /\ UNCHANGED original_variables
            /\ lastOp' = Op("create_variable", n, <<name>>, TRUE)
            /\ UNCHANGED buildVars
       ELSE /\ UNCHANGED <<current_variables, original_variables>>
            /\ lastOp' = Op("create_variable", n, <<name>>, FALSE)
            /\ \E caught \in BOOLEAN : Raise(caught)
    /\ UNCHANGED <<graphVars, additional_data, set_hyperparameters,
                   update_deltas, inputs, hpVars, root_node>>

\* RelativeNetwork.create_variable: a new output variable of node n
create_variable(n, name) ==
    /\ CanCall
    /\ IF /\ name \notin DOMAIN current_variables[n]
          /\ name \notin DOMAIN original_variables[n]
       THEN /\ current_variables' = [current_variables EXCEPT
                    ![n] = Put(@, name, Variable(n, name, 0))]
            /\ original_variables' = [original_variables EXCEPT
                    ![n] = Put(@, name, Variable(n, name, 0))]
            /\ lastOp' = Op("create_variable", n, <<name>>, TRUE)
            /\ UNCHANGED buildVars
       ELSE /\ UNCHANGED <<current_variables, original_variables>>
            /\ lastOp' = Op("create_variable", n, <<name>>, FALSE)
            /\ \E caught \in BOOLEAN : Raise(caught)
    /\ UNCHANGED <<graphVars, additional_data, set_hyperparameters,
                   update_deltas, inputs, hpVars, root_node>>

----------------------------------------------------------------------------
(* Hyperparameters: RelativeNetwork.set_hyperparameter and the search of   *)
(* find_hyperparameters (network.py 251-342).                              *)

HPKeys == {"num_units", "output_dim"}

Values == {"v1", "v2"}

NoDefaultValue == "NoDefaultValue"

None == "None"

\* the default_value arguments tried: none given, None, a value
DefaultValues == {NoDefaultValue, None, "dflt"}

\* the hyperparameter_keys arguments tried
KeyLists ==
    {<<k>> : k \in HPKeys} \cup
    {<<k1, k2>> : <<k1, k2>> \in {kk \in HPKeys \X HPKeys : kk[1] # kk[2]}}

PartialMaps(K, V) == UNION {[D -> V] : D \in SUBSET K}

\* override_hyperparameters, per candidate key in order
RECURSIVE override_tier(_)
override_tier(keys) ==
    IF keys = <<>> THEN <<>>
    ELSE (IF Head(keys) \in DOMAIN override_hyperparameters
          THEN <<override_hyperparameters[Head(keys)]>> ELSE <<>>)
         \o override_tier(Tail(keys))

RECURSIVE Reverse(_)
Reverse(q) == IF q = <<>> THEN <<>> ELSE Append(Reverse(Tail(q)), Head(q))

\* a search that walks the chain from the root down
search_chain_root_first(n) == Reverse(<<n>> \o architecture_ancestors(n))

\* the chain the search walks: the node itself, then its ancestors
search_chain(n) == <<n>> \o architecture_ancestors(n)

\* a lookup in the record of each visited node, at the chain node as target
RECURSIVE set_values_at_chain_node(_, _, _)
set_values_at_chain_node(node, key, done) ==
    IF done = <<>> THEN <<>>
    ELSE (IF /\ node \in DOMAIN set_hyperparameters[Head(done)]
             /\ key \in DOMAIN set_hyperparameters[Head(done)][node]
          THEN <<set_hyperparameters[Head(done)][node][key]>> ELSE <<>>)
         \o set_values_at_chain_node(node, key, Tail(done))

\* a lookup in the record of the chain node at every target it holds
RECURSIVE set_values_any_target(_, _, _)
set_values_any_target(node, key, done) ==
    IF done = <<>>
    THEN IF \E t \in DOMAIN set_hyperparameters[node] :
                key \in DOMAIN set_hyperparameters[node][t]
         THEN LET t == CHOOSE t \in DOMAIN set_hyperparameters[node] :
                          key \in DOMAIN set_hyperparameters[node][t]
              IN <<set_hyperparameters[node][t][key]>>
         ELSE <<>>
    ELSE (IF /\ Head(done) \in DOMAIN set_hyperparameters[node]
             /\ key \in DOMAIN set_hyperparameters[node][Head(done)]
          THEN <<set_hyperparameters[node][Head(done)][key]>> ELSE <<>>)
         \o set_values_any_target(node, key, Tail(done))

\* node_hps[ancestor_name][key] for each ancestor_name of done, in order,
\* where node_hps is the set_hyperparameters record of the chain node
RECURSIVE set_values(_, _, _)
set_values(node, key, done) ==
    IF done = <<>> THEN <<>>
    ELSE (IF /\ Head(done) \in DOMAIN set_hyperparameters[node]
             /\ key \in DOMAIN set_hyperparameters[node][Head(done)]
          THEN <<set_hyperparameters[node][Head(done)][key]>> ELSE <<>>)
         \o set_values(node, key, Tail(done))

\* node.get_hyperparameter(view, key): a value, or MissingHyperparameter
provided_values(node, key) ==
    IF key \in DOMAIN node_hyperparameters[node]
    THEN <<node_hyperparameters[node][key]>> ELSE <<>>

\* an inner loop that stops after the first candidate key
node_values_first_key(node, keys, done) ==
    IF keys = <<>> THEN <<>>
    ELSE set_values(node, Head(keys), done)
         \o provided_values(node, Head(keys))

\* an inner loop that yields the node-provided value before the set ones
RECURSIVE node_values_provided_first(_, _, _)
node_values_provided_first(node, keys, done) ==
    IF keys = <<>> THEN <<>>
    ELSE provided_values(node, Head(keys))
         \o set_values(node, Head(keys), done)
         \o node_values_provided_first(node, Tail(keys), done)

\* the inner loop over the candidate keys, at one chain node
RECURSIVE node_values(_, _, _)
node_values(node, keys, done) ==
    IF keys = <<>> THEN <<>>
    ELSE set_values(node, Head(keys), done)
         \o provided_values(node, Head(keys))
         \o node_values(node, Tail(keys), done)

\* the values of one key along the chain, from position i on
RECURSIVE key_along_chain(_, _, _)
key_along_chain(chain, key, i) ==
    IF i > Len(chain) THEN <<>>
    ELSE node_values(chain[i], <<key>>, SubSeq(chain, 1, i))
         \o key_along_chain(chain, key, i + 1)

\* a search with the candidate keys as the outer loop
RECURSIVE chain_values_keys_outer(_, _, _)
chain_values_keys_outer(chain, keys, i) ==
    IF keys = <<>> THEN <<>>
    ELSE key_along_chain(chain, Head(keys), i)
         \o chain_values_keys_outer(chain, Tail(keys), i)

\* the outer loop over the chain, from position i on
RECURSIVE chain_values(_, _, _)
chain_values(chain, keys, i) ==
    IF i > Len(chain) THEN <<>>
    ELSE node_values(chain[i], keys, SubSeq(chain, 1, i))
         \o chain_values(chain, keys, i + 1)

hierarchy_tier(n, keys) == chain_values(search_chain(n), keys, 1)

\* a default test that takes None for "no default given"
caller_default_tier_not_none(default_value) ==
    IF default_value \notin {NoDefaultValue, None}
    THEN <<default_value>> ELSE <<>>

caller_default_tier(default_value) ==
    IF default_value # NoDefaultValue THEN <<default_value>> ELSE <<>>

\* default_hyperparameters, per candidate key in order
RECURSIVE global_default_tier(_)
global_default_tier(keys) ==
    IF keys = <<>> THEN <<>>
    ELSE (IF Head(keys) \in DOMAIN default_hyperparameters
          THEN <<default_hyperparameters[Head(keys)]>> ELSE <<>>)
         \o global_default_tier(Tail(keys))

\* a search that looks at the hierarchy before the override map
find_hyperparameters_hierarchy_first(n, keys, default_value) ==
    hierarchy_tier(n, keys) \o override_tier(keys)
        \o caller_default_tier(default_value) \o global_default_tier(keys)

\* a search that looks at the global defaults before the caller's default
find_hyperparameters_global_first(n, keys, default_value) ==
    override_tier(keys) \o hierarchy_tier(n, keys)
        \o global_default_tier(keys) \o caller_default_tier(default_value)

\* everything the generator yields, in order
find_hyperparameters(n, keys, default_value) ==
    override_tier(keys) \o hierarchy_tier(n, keys)
        \o caller_default_tier(default_value) \o global_default_tier(keys)

Missing == [ok |-> FALSE, val |-> "MissingHyperparameter"]

Found(v) == [ok |-> TRUE, val |-> v]

\* the first value yielded, or MissingHyperparameter
find_hyperparameter_result(n, keys, default_value) ==
    LET vals == find_hyperparameters(n, keys, default_value)
    IN IF vals = <<>> THEN Missing ELSE Found(vals[1])

find_hyperparameter(n, keys, default_value) ==
    /\ CanCall
    /\ LET r == find_hyperparameter_result(n, keys, default_value)
       IN /\ lastOp' = OpVal("find_hyperparameter", n,
                             <<keys, default_value>>, r.ok, r.val)
          /\ IF r.ok THEN UNCHANGED buildVars
             ELSE \E caught \in BOOLEAN : Raise(caught)
    /\ UNCHANGED <<graphVars, storeVars, hpVars, root_node>>

\* the generator consumed to its end, as list(find_hyperparameters(...));
\* it can be consumed again while the previous list is still held
list_find_hyperparameters(n, keys, default_value) ==
    /\ is_built
    /\ Idle \/ lastOp.op = "find_hyperparameters"
    /\ inHook \/ pc \in Returned
    /\ lastOp' = OpVal("find_hyperparameters", n, <<keys, default_value>>,
                       TRUE, find_hyperparameters(n, keys, default_value))
    /\ UNCHANGED <<buildVars, graphVars, storeVars, hpVars, root_node>>

set_hyperparameter_result(hps, node_name, key, value) ==
    Put(hps, node_name,
        Put(IF node_name \in DOMAIN hps THEN hps[node_name] ELSE EmptyMap,
            key, value))

set_hyperparameter(n, node_name, key, value) ==
    /\ CanCall
    /\ set_hyperparameters' = [set_hyperparameters EXCEPT
           ![n] = set_hyperparameter_result(@, node_name, key, value)]
    /\ lastOp' = Op("set_hyperparameter", "", <<>>, TRUE)
    /\ UNCHANGED <<buildVars, graphVars, current_variables,
                   original_variables, additional_data, update_deltas,
                   inputs, hpVars, root_node>>

\* RelativeNetwork.forward_hyperparameter: the value found for
\* hyperparameter_keys is set for node_name under key
forward_hyperparameter(n, node_name, key, hyperparameter_keys, default_value) ==
    /\ CanCall
    /\ LET r == find_hyperparameter_result(n, hyperparameter_keys,
                                           default_value)
       IN /\ lastOp' = OpVal("forward_hyperparameter", n,
                             <<node_name, key, hyperparameter_keys>>,
                             r.ok, r.val)
          /\ IF r.ok
             THEN /\ set_hyperparameters' = [set_hyperparameters EXCEPT
                         ![n] = set_hyperparameter_result(@, node_name, key,
                                                          r.val)]
                  /\ UNCHANGED buildVars
             ELSE /\ UNCHANGED set_hyperparameters
                  /\ \E caught \in BOOLEAN : Raise(caught)
    /\ UNCHANGED <<graphVars, current_variables, original_variables,
                   additional_data, update_deltas, inputs, hpVars, root_node>>

\* the DenseNodes of the architecture tree
DenseNodes == {"fc"} \cap Nodes

\* a DenseNode.init_state that forwards under the key it looked up
DenseNode_init_state_source_key ==
    /\ Idle
    /\ pc = "init_state"
    /\ ~inHook
    /\ HookNode \in DenseNodes
    /\ log' = Append(log, Event(pc, HookNode))
    /\ LET r == find_hyperparameter_result(HookNode, <<"num_units">>,
                                           NoDefaultValue)
       IN /\ lastOp' = OpVal("forward_hyperparameter", HookNode,
                             <<HookNode \o "_linear", "output_dim",
                               <<"num_units">>>>, r.ok, r.val)
          /\ IF r.ok
             THEN /\ set_hyperparameters' = [set_hyperparameters EXCEPT
                         ![HookNode] = set_hyperparameter_result(
                             @, HookNode \o "_linear", "num_units", r.val)]
                  /\ inHook' = TRUE
                  /\ UNCHANGED pc
             ELSE /\ UNCHANGED set_hyperparameters
                  /\ inHook' = FALSE
                  /\ pc' = "aborted"
    /\ UNCHANGED <<is_built, idx, order, rules_written, entry>>
    /\ UNCHANGED <<graphVars, current_variables, original_variables,
                   additional_data, update_deltas, inputs, hpVars, root_node>>

\* a DenseNode.init_state that goes on when the lookup fails
DenseNode_init_state_swallowing ==
    /\ Idle
    /\ pc = "init_state"
    /\ ~inHook
    /\ HookNode \in DenseNodes
    /\ log' = Append(log, Event(pc, HookNode))
    /\ LET r == find_hyperparameter_result(HookNode, <<"num_units">>,
                                           NoDefaultValue)
       IN /\ lastOp' = OpVal("forward_hyperparameter", HookNode,
                             <<HookNode \o "_linear", "output_dim",
                               <<"num_units">>>>, r.ok, r.val)
          /\ IF r.ok
             THEN /\ set_hyperparameters' = [set_hyperparameters EXCEPT
                         ![HookNode] = set_hyperparameter_result(
                             @, HookNode \o "_linear", "output_dim", r.val)]
                  /\ inHook' = TRUE
                  /\ UNCHANGED pc
             ELSE /\ UNCHANGED set_hyperparameters
                  /\ inHook' = TRUE
                  /\ UNCHANGED pc
    /\ UNCHANGED <<is_built, idx, order, rules_written, entry>>
    /\ UNCHANGED <<graphVars, current_variables, original_variables,
                   additional_data, update_deltas, inputs, hpVars, root_node>>

\* DenseNode.init_state, invoked by the state-init loop: it forwards the
\* value found for ["num_units"] to its LinearMappingNode as "output_dim";
\* a MissingHyperparameter leaves the hook and ends build()
DenseNode_init_state ==
    /\ Idle
    /\ pc = "init_state"
    /\ ~inHook
    /\ HookNode \in DenseNodes
    /\ log' = Append(log, Event(pc, HookNode))
    /\ LET r == find_hyperparameter_result(HookNode, <<"num_units">>,
                                           NoDefaultValue)
       IN /\ lastOp' = OpVal("forward_hyperparameter", HookNode,
                             <<HookNode \o "_linear", "output_dim",
                               <<"num_units">>>>, r.ok, r.val)
          /\ IF r.ok
             THEN /\ set_hyperparameters' = [set_hyperparameters EXCEPT
                         ![HookNode] = set_hyperparameter_result(
                             @, HookNode \o "_linear", "output_dim", r.val)]
                  /\ inHook' = TRUE
                  /\ UNCHANGED pc
             ELSE /\ UNCHANGED set_hyperparameters
                  /\ inHook' = FALSE
                  /\ pc' = "aborted"
    /\ UNCHANGED <<is_built, idx, order, rules_written, entry>>
    /\ UNCHANGED <<graphVars, current_variables, original_variables,
                   additional_data, update_deltas, inputs, hpVars, root_node>>

----------------------------------------------------------------------------
(* The build of SequentialNode("seq", [i, lm]) with arbitrary hooks.       *)

Init ==
    /\ root_node = SeqTree
    /\ is_built = FALSE
    /\ pc = "unbuilt"
    /\ idx = 1
    /\ inHook = FALSE
    /\ is_mutable = TRUE
    /\ edges = {}
    /\ order = <<>>
    /\ log = <<>>
    /\ rules_written = {}
    /\ entry = NoEntry
    /\ current_variables = EmptyMap
    /\ original_variables = EmptyMap
    /\ additional_data = EmptyMap
    /\ set_hyperparameters = EmptyMap
    /\ inputs = EmptyMap
    /\ update_deltas = EmptyMap
    /\ override_hyperparameters = EmptyMap
    /\ default_hyperparameters = [batch_axis |-> "0"]
    /\ node_hyperparameters = [n \in DOMAIN SeqTree.children |-> EmptyMap]
    /\ lastOp = NoOp

Next ==
    \/ build
    \/ TakeOutcome
    \/ CallHook
    \/ CallComputeOutput
    \/ ReturnHook
    \/ Freeze
    \/ \E var \in SharedVariables : set_update_delta(var)
    \/ \E f, t \in Nodes : \E fk, tk \in PortKeys :
           add_dependency(f, t, fk, tk)
    \/ \E f, t \in Nodes : remove_dependency(f, t)
    \/ \E n, m \in Nodes : \E fk, tk \in PortKeys :
           take_output_from(n, m, fk, tk)
    \/ \E n, m \in Nodes : \E fk, tk \in PortKeys :
           forward_output_to(n, m, fk, tk)
    \/ \E n, m \in Nodes : \E pk, tk \in PortKeys : \E ign \in BOOLEAN :
           forward_input_to(n, m, pk, tk, ign)
    \/ \E n \in Nodes : create_variable(n, "default")

Spec == Init /\ [][Next]_vars

----------------------------------------------------------------------------
(* Properties of build() and of the frozen graph.                          *)

\* C1: a build() call on a network that already holds a graph is a no-op:
\* it invokes no hook, moves build() nowhere, and leaves the graph, the
\* node state store and the update delta set as they are.
C1_BuildIdempotent ==
    [][(is_built /\ lastOp'.op = "build")
        => UNCHANGED <<buildVars, graphVars, storeVars>>]_vars

\* a later build() call on a finished network with variables and edges
C1_Witness ==
    /\ pc = "built"
    /\ lastOp.op = "build"
    /\ edges # {}
    /\ \E n \in Nodes : current_variables[n] # EmptyMap

PhaseRank(ev) ==
    CASE ev = "init_long_range_dependencies" -> 1
      [] ev = "init_state" -> 2
      [] ev = "freeze" -> 3
      [] ev = "compute_output" -> 4
      [] ev = "mutate_update_deltas" -> 5

\* C2: the events of one build() come phase by phase: no event of an
\* earlier phase follows one of a later phase, and when an event of a
\* phase happens every node's hook of each earlier phase has been called
\* and, past the state-init phase, the freeze has happened.
C2_PhasesSequential ==
    \A j \in DOMAIN log :
        /\ \A i \in 1..(j - 1) : PhaseRank(log[i].ev) <= PhaseRank(log[j].ev)
        /\ \A h \in HookPhases :
               PhaseRank(h) < PhaseRank(log[j].ev)
               => \A n \in Nodes : \E i \in 1..(j - 1) : log[i] = Event(h, n)
        /\ PhaseRank(log[j].ev) > 3
               => \E i \in 1..(j - 1) : log[i].ev = "freeze"

\* a build() that ran all five phases to the end
C2_Witness ==
    /\ pc = "built"
    /\ Len(log) = 4 * Cardinality(Nodes) + 1

Frozen == \E i \in DOMAIN log : log[i].ev = "freeze"

EditOps == {"add_dependency", "remove_dependency"}

\* C3: from the freeze step on the graph stays locked, every call that
\* reaches graph.add_dependency or graph.remove_dependency fails, and the
\* dependency edges never change.
C3_FreezeEnforced ==
    [][Frozen => /\ ~is_mutable /\ ~is_mutable'
                 /\ edges' = edges
                 /\ (lastOp'.op \in EditOps => ~lastOp'.ok)]_vars

\* a refused edit of a frozen graph that has edges, after build() returned
C3_Witness ==
    /\ Frozen
    /\ pc = "built"
    /\ edges # {}
    /\ lastOp.op = "remove_dependency"
    /\ ~lastOp.ok

\* C4: when compute_output of a node v is invoked, compute_output of every
\* node u with a dependency edge u -> v has been invoked (and has ended)
\* before.
C4_TopologicalCompute ==
    \A j \in DOMAIN log :
        log[j].ev = "compute_output"
        => \A e \in edges :
               e.to = log[j].node
               => \E i \in 1..(j - 1) : log[i] = Event("compute_output", e.from)

\* a finished build whose graph has an edge against declaration order
C4_Witness ==
    /\ pc = "built"
    /\ \E e \in edges : ArchIndex(e.from) > ArchIndex(e.to)

----------------------------------------------------------------------------
(* The hyperparameter search on a built three-level network, for          *)
(* every small override map, default map, set of node-provided values and  *)
(* sequence of set_hyperparameter calls.                                   *)

MaxEntries == 2

HookEvents(h, seq) == [i \in DOMAIN seq |-> Event(h, seq[i])]

\* the events of a build() that ran to its end
BuiltLog(seq) ==
    HookEvents("init_long_range_dependencies", seq)
        \o HookEvents("init_state", seq)
        \o <<Event("freeze", "")>>
        \o HookEvents("compute_output", seq)
        \o HookEvents("mutate_update_deltas", seq)

ProvidedEntries ==
    {nk \in Nodes \X HPKeys : nk[2] \in DOMAIN node_hyperparameters[nk[1]]}

SetEntries ==
    {ntk \in Nodes \X Nodes \X HPKeys :
        /\ ntk[2] \in DOMAIN set_hyperparameters[ntk[1]]
        /\ ntk[3] \in DOMAIN set_hyperparameters[ntk[1]][ntk[2]]}

\* the entries held by the four sources the search reads
TotalEntries ==
    Cardinality(DOMAIN override_hyperparameters)
        + Cardinality(DOMAIN default_hyperparameters)
        + Cardinality(ProvidedEntries) + Cardinality(SetEntries)

\* the state build() leaves when no hook edits the graph or the store
BuiltState(tree) ==
    /\ root_node = tree
    /\ is_built = TRUE
    /\ pc = "built"
    /\ idx = 1
    /\ inHook = FALSE
    /\ is_mutable = FALSE
    /\ edges = {}
    /\ order = architectural_tree_nodes_root_to_leaves
    /\ log = BuiltLog(architectural_tree_nodes_root_to_leaves)
    /\ rules_written = {}
    /\ entry = NoEntry
    /\ current_variables = [n \in Nodes |-> EmptyMap]
    /\ original_variables = [n \in Nodes |-> EmptyMap]
    /\ additional_data = [n \in Nodes |-> EmptyMap]
    /\ set_hyperparameters = [n \in Nodes |-> EmptyMap]
    /\ inputs = [n \in Nodes |-> EmptyMap]
    /\ update_deltas = EmptyMap
    /\ lastOp = NoOp

InitHP ==
    /\ BuiltState(ChainTree)
    /\ override_hyperparameters \in PartialMaps(HPKeys, Values)
    /\ default_hyperparameters \in PartialMaps(HPKeys, Values)
    /\ Cardinality(DOMAIN override_hyperparameters)
           + Cardinality(DOMAIN default_hyperparameters) <= MaxEntries
    /\ node_hyperparameters \in [Nodes -> PartialMaps(HPKeys, Values)]
    /\ TotalEntries <= MaxEntries

NextHP ==
    \/ TakeOutcome
    \/ /\ Idle
       /\ TotalEntries < MaxEntries
       /\ \E n, t \in Nodes : \E k \in HPKeys : \E v \in Values :
              set_hyperparameter(n, t, k, v)
    \/ /\ Idle
       /\ \E ntk \in SetEntries : \E v \in Values :
              set_hyperparameter(ntk[1], ntk[2], ntk[3], v)
    \/ \E n \in Nodes : \E keys \in KeyLists : \E d \in DefaultValues :
           find_hyperparameter(n, keys, d)
    \/ \E n \in Nodes : \E keys \in KeyLists : \E d \in DefaultValues :
           list_find_hyperparameters(n, keys, d)

SpecHP == InitHP /\ [][NextHP]_vars

----------------------------------------------------------------------------
(* Properties of find_hyperparameter, stated on the outcome of the last    *)
(* call and the maps it read.                                              *)

IsFind == lastOp.op = "find_hyperparameter"

QNode == lastOp.node

QKeys == lastOp.args[1]

QDefault == lastOp.args[2]

Ancestors(n) == SeqToSet(architecture_ancestors(n))

\* the nodes on the architecture path from n up to x, both included
PathUp(n, x) == {n} \cup {y \in Ancestors(n) : y = x \/ x \in Ancestors(y)}

\* the values chain node x has set for key k on a target between n and x
SetFor(x, n, k) ==
    {set_hyperparameters[x][t][k] :
        t \in {u \in PathUp(n, x) :
                  /\ u \in DOMAIN set_hyperparameters[x]
                  /\ k \in DOMAIN set_hyperparameters[x][u]}}

ProvidedFor(x, k) ==
    IF k \in DOMAIN node_hyperparameters[x]
    THEN {node_hyperparameters[x][k]} ELSE {}

\* every value the hierarchy holds for key k, seen from node n
HierValues(n, k) ==
    UNION {SetFor(x, n, k) \cup ProvidedFor(x, k) :
              x \in {n} \cup Ancestors(n)}

KeyIn(keys, m) == \E i \in DOMAIN keys : keys[i] \in DOMAIN m

\* the first key of keys that map m holds
FirstKeyIn(keys, m) ==
    keys[CHOOSE i \in DOMAIN keys :
            /\ keys[i] \in DOMAIN m
            /\ \A j \in 1..(i - 1) : keys[j] \notin DOMAIN m]

NoHierMatch(n, keys) == \A i \in DOMAIN keys : HierValues(n, keys[i]) = {}

\* C5: when a candidate key is in the override map, find_hyperparameter
\* returns the override value of the first such key, whatever the set
\* values, the node-provided values, the caller default and the global
\* defaults are.
C5_OverridePrecedence ==
    (IsFind /\ KeyIn(QKeys, override_hyperparameters))
    => /\ lastOp.ok
       /\ lastOp.val =
              override_hyperparameters[
                  FirstKeyIn(QKeys, override_hyperparameters)]

\* the override holds only the second key, the hierarchy another value for
\* the first, and a caller default was given
C5_Witness ==
    /\ IsFind
    /\ Len(QKeys) = 2
    /\ QKeys[1] \notin DOMAIN override_hyperparameters
    /\ QKeys[2] \in DOMAIN override_hyperparameters
    /\ \E v \in HierValues(QNode, QKeys[1]) :
           v # override_hyperparameters[QKeys[2]]
    /\ QDefault # NoDefaultValue

\* a node nearer to n than a holds a value for key k
NearerMatch(n, a, k) ==
    \E x \in PathUp(n, a) \ {a} :
        SetFor(x, n, k) # {} \/ ProvidedFor(x, k) # {}

SetsFor(x, n, k) ==
    /\ n \in DOMAIN set_hyperparameters[x]
    /\ k \in DOMAIN set_hyperparameters[x][n]

\* ancestors a (closer) and b (farther) of the asking node both set key k
\* for it; the override map has no k and no nearer node holds a k
ProximityCase(a, b) ==
    /\ IsFind
    /\ Len(QKeys) = 1
    /\ a \in Ancestors(QNode)
    /\ b \in Ancestors(a)
    /\ SetsFor(a, QNode, QKeys[1])
    /\ SetsFor(b, QNode, QKeys[1])
    /\ QKeys[1] \notin DOMAIN override_hyperparameters
    /\ ~NearerMatch(QNode, a, QKeys[1])

\* C6: when a closer ancestor a and a farther ancestor b have both set a
\* value for the key on the asking node, and neither the override map nor
\* a nearer node has one, find_hyperparameter returns a's value.
C6_ProximityPrecedence ==
    \A a, b \in Nodes :
        ProximityCase(a, b)
        => /\ lastOp.ok
           /\ lastOp.val = set_hyperparameters[a][QNode][QKeys[1]]

\* the two ancestors set different values
C6_Witness ==
    \E a, b \in Nodes :
        /\ ProximityCase(a, b)
        /\ set_hyperparameters[a][QNode][QKeys[1]]
               # set_hyperparameters[b][QNode][QKeys[1]]

\* the first of two candidate keys has no value in any tier, the second
\* one in the override map or the hierarchy
SecondKeyCase ==
    /\ IsFind
    /\ Len(QKeys) = 2
    /\ QKeys[1] \notin DOMAIN override_hyperparameters
    /\ HierValues(QNode, QKeys[1]) = {}
    /\ QKeys[1] \notin DOMAIN default_hyperparameters
    /\ \/ QKeys[2] \in DOMAIN override_hyperparameters
       \/ HierValues(QNode, QKeys[2]) # {}

\* C7: for keys [k1, k2] where k1 has no value anywhere and k2 has one in
\* the override map or the hierarchy, find_hyperparameter returns a k2
\* value of that tier: the override's, else one the hierarchy holds.
C7_MultiKey ==
    SecondKeyCase
    => /\ lastOp.ok
       /\ IF QKeys[2] \in DOMAIN override_hyperparameters
          THEN lastOp.val = override_hyperparameters[QKeys[2]]
          ELSE lastOp.val \in HierValues(QNode, QKeys[2])

\* k2 is held by the hierarchy only, while a caller default is given and
\* the global defaults hold a different k2 value
C7_Witness ==
    /\ SecondKeyCase
    /\ QKeys[2] \notin DOMAIN override_hyperparameters
    /\ QDefault = "dflt"
    /\ QKeys[2] \in DOMAIN default_hyperparameters
    /\ default_hyperparameters[QKeys[2]] \notin HierValues(QNode, QKeys[2])

\* no candidate key matches in the override map or the hierarchy
DefaultCase ==
    /\ IsFind
    /\ ~KeyIn(QKeys, override_hyperparameters)
    /\ NoHierMatch(QNode, QKeys)

\* C8: when neither the override map nor the hierarchy matches, the
\* caller's default is returned if one was given, also when the global
\* defaults hold a candidate key; without one, the global default of the
\* first candidate key they hold is returned.
C8_DefaultTiers ==
    DefaultCase
    => /\ QDefault # NoDefaultValue
            => (lastOp.ok /\ lastOp.val = QDefault)
       /\ (QDefault = NoDefaultValue
            /\ KeyIn(QKeys, default_hyperparameters))
            => /\ lastOp.ok
               /\ lastOp.val =
                      default_hyperparameters[
                          FirstKeyIn(QKeys, default_hyperparameters)]

\* a caller default wins over a global default of a candidate key
C8_Witness ==
    /\ DefaultCase
    /\ QDefault = "dflt"
    /\ KeyIn(QKeys, default_hyperparameters)
    /\ lastOp.val = "dflt"

\* no tier holds anything for the candidate keys
NoTierMatches ==
    /\ ~KeyIn(QKeys, override_hyperparameters)
    /\ NoHierMatch(QNode, QKeys)
    /\ QDefault = NoDefaultValue
    /\ ~KeyIn(QKeys, default_hyperparameters)

\* C9: find_hyperparameter raises MissingHyperparameter exactly when no
\* tier matches; a default of None counts as given and is returned when
\* the override map and the hierarchy do not match.
C9_MissingIffNoTier ==
    IsFind
    => /\ ~lastOp.ok <=> NoTierMatches
       /\ ~lastOp.ok => lastOp.val = "MissingHyperparameter"
       /\ (DefaultCase /\ QDefault = None)
             => (lastOp.ok /\ lastOp.val = None)

\* a failed search on a network that holds values, none for its keys
C9_Witness ==
    /\ IsFind
    /\ ~lastOp.ok
    /\ Len(QKeys) = 2
    /\ SetEntries # {}
    /\ ProvidedEntries # {}

----------------------------------------------------------------------------
(* The variables and the auxiliary data of the node state store            *)
(* (network.py 237-249, 371-413), on a built two-node network.             *)

LocalNames == {"default", "weight"}

DataKeys == {"weight", "aux"}

DataValues == {"d1", "d2"}

\* the objects handed to replace_variable: other wrappers of the same name
Versions == {1, 2}

\* a replace_variable that also rewrites the first-created entry
replace_variable_rewriting(n, name, new_variable) ==
    /\ CanCall
    /\ IF name \in DOMAIN original_variables[n]
       THEN /\ current_variables' = [current_variables EXCEPT
                    ![n] = Put(@, name, new_variable)]
            /\ original_variables' = [original_variables EXCEPT
                    ![n] = Put(@, name, new_variable)]
            /\ lastOp' = Op("replace_variable", n,
                            <<name, new_variable>>, TRUE)
            /\ UNCHANGED buildVars
       ELSE /\ UNCHANGED <<current_variables, original_variables>>
            /\ lastOp' = Op("replace_variable", n,
                            <<name, new_variable>>, FALSE)
            /\ \E caught \in BOOLEAN : Raise(caught)
    /\ UNCHANGED <<graphVars, additional_data,
                   set_hyperparameters, update_deltas, inputs, hpVars,
                   root_node>>

\* a replace_variable without its assertion
replace_variable_unchecked(n, name, new_variable) ==
    /\ CanCall
    /\ current_variables' = [current_variables EXCEPT
            ![n] = Put(@, name, new_variable)]
    /\ lastOp' = Op("replace_variable", n, <<name, new_variable>>, TRUE)
    /\ UNCHANGED buildVars
    /\ UNCHANGED <<graphVars, original_variables, additional_data,
                   set_hyperparameters, update_deltas, inputs, hpVars,
                   root_node>>

\* RelativeNetwork.replace_variable: name keeps its first-created entry
replace_variable(n, name, new_variable) ==
    /\ CanCall
    /\ IF name \in DOMAIN original_variables[n]
       THEN /\ current_variables' = [current_variables EXCEPT
                    ![n] = Put(@, name, new_variable)]
            /\ lastOp' = Op("replace_variable", n,
                            <<name, new_variable>>, TRUE)
            /\ UNCHANGED buildVars
       ELSE /\ UNCHANGED current_variables
            /\ lastOp' = Op("replace_variable", n,
                            <<name, new_variable>>, FALSE)
            /\ \E caught \in BOOLEAN : Raise(caught)
    /\ UNCHANGED <<graphVars, original_variables, additional_data,
                   set_hyperparameters, update_deltas, inputs, hpVars,
                   root_node>>

\* a set_data that does not look at the node's variable names
set_data_any_name(n, key, value) ==
    /\ CanCall
    /\ IF key \notin DOMAIN additional_data[n]
       THEN /\ additional_data' = [additional_data EXCEPT
                    ![n] = Put(@, key, value)]
            /\ lastOp' = Op("set_data", n, <<key, value>>, TRUE)
            /\ UNCHANGED buildVars
       ELSE /\ UNCHANGED additional_data
            /\ lastOp' = Op("set_data", n, <<key, value>>, FALSE)
            /\ \E caught \in BOOLEAN : Raise(caught)
    /\ UNCHANGED <<graphVars, current_variables, original_variables,
                   set_hyperparameters, update_deltas, inputs, hpVars,
                   root_node>>

\* RelativeNetwork.set_data: a new key of the node's additional_data
set_data(n, key, value) ==
    /\ CanCall
    /\ IF /\ key \notin DOMAIN additional_data[n]
          /\ key \notin DOMAIN current_variables[n]
       THEN /\ additional_data' = [additional_data EXCEPT
                    ![n] = Put(@, key, value)]
            /\ lastOp' = Op("set_data", n, <<key, value>>, TRUE)
            /\ UNCHANGED buildVars
       ELSE /\ UNCHANGED additional_data
            /\ lastOp' = Op("set_data", n, <<key, value>>, FALSE)
            /\ \E caught \in BOOLEAN : Raise(caught)
    /\ UNCHANGED <<graphVars, current_variables, original_variables,
                   set_hyperparameters, update_deltas, inputs, hpVars,
                   root_node>>

\* RelativeNetwork.copy_variable: the create_variable call it makes, for a
\* wrapper of the variable that previous_variable wraps, with tags of its
\* own
copy_variable(n, name, previous_variable, tags) ==
    /\ CanCall
    /\ IF /\ name \notin DOMAIN current_variables[n]
          /\ name \notin DOMAIN original_variables[n]
       THEN LET vw == [name |-> Variable(n, name, 0).name, ver |-> 0,
                       variable |-> previous_variable.variable,
                       tags |-> tags, is_shared |-> FALSE]
            IN /\ current_variables' = [current_variables EXCEPT
                       ![n] = Put(@, name, vw)]
               /\ original_variables' = [original_variables EXCEPT
                       ![n] = Put(@, name, vw)]
               /\ lastOp' = Op("create_variable", n, <<name>>, TRUE)
               /\ UNCHANGED buildVars
       ELSE /\ UNCHANGED <<current_variables, original_variables>>
            /\ lastOp' = Op("create_variable", n, <<name>>, FALSE)
            /\ \E caught \in BOOLEAN : Raise(caught)
    /\ UNCHANGED <<graphVars, additional_data, set_hyperparameters,
                   update_deltas, inputs, hpVars, root_node>>

\* the wrappers the nodes hold now
CurrentVariables ==
    UNION {{current_variables[n][l] : l \in DOMAIN current_variables[n]} :
              n \in Nodes}

\* RelativeNetwork.get_data: the value stored under key, or KeyError
get_data(n, key) ==
    /\ CanCall
    /\ IF key \in DOMAIN additional_data[n]
       THEN /\ lastOp' = OpVal("get_data", n, <<key>>, TRUE,
                               additional_data[n][key])
            /\ UNCHANGED buildVars
       ELSE /\ lastOp' = OpVal("get_data", n, <<key>>, FALSE, "KeyError")
            /\ \E caught \in BOOLEAN : Raise(caught)
    /\ UNCHANGED <<graphVars, storeVars, hpVars, root_node>>

MaxStore == 3

VariableEntries ==
    {nl \in Nodes \X LocalNames : nl[2] \in DOMAIN original_variables[nl[1]]}

DataEntries ==
    {nk \in Nodes \X DataKeys : nk[2] \in DOMAIN additional_data[nk[1]]}

\* the variables and data values the store holds
StoreEntries == Cardinality(VariableEntries) + Cardinality(DataEntries)

InitVars ==
    /\ BuiltState(PairTree)
    /\ override_hyperparameters = EmptyMap
    /\ default_hyperparameters = [batch_axis |-> "0"]
    /\ node_hyperparameters = [n \in Nodes |-> EmptyMap]

NextVars ==
    \/ TakeOutcome
    \/ /\ Idle
       /\ StoreEntries < MaxStore
       /\ \E n \in Nodes : \E name \in LocalNames : create_variable(n, name)
    \/ /\ Idle
       /\ \E nl \in VariableEntries : create_variable(nl[1], nl[2])
    \/ /\ Idle
       /\ StoreEntries < MaxStore
       /\ \E n \in Nodes : \E name \in LocalNames :
              \E previous_variable \in CurrentVariables :
                  copy_variable(n, name, previous_variable, {"output"})
    \/ \E n \in Nodes : \E name \in LocalNames : \E v \in Versions :
           replace_variable(n, name, Variable(n, name, v))
    \/ /\ Idle
       /\ StoreEntries < MaxStore
       /\ \E n \in Nodes : \E k \in DataKeys : \E d \in DataValues :
              set_data(n, k, d)
    \/ /\ Idle
       /\ \E n \in Nodes :
              \E k \in DOMAIN additional_data[n] \cup
                       DOMAIN current_variables[n] :
                  \E d \in DataValues : set_data(n, k, d)
    \/ \E n \in Nodes : \E k \in DataKeys : get_data(n, k)

SpecVars == InitVars /\ [][NextVars]_vars

\* C10: a create_variable call for a local name that the node's
\* current_variables or original_variables already hold fails and leaves
\* both maps as they were.
C10_CreateUnique ==
    [][(/\ lastOp'.op = "create_variable"
        /\ Idle
        /\ \/ lastOp'.args[1] \in DOMAIN current_variables[lastOp'.node]
           \/ lastOp'.args[1] \in DOMAIN original_variables[lastOp'.node])
       => /\ ~lastOp'.ok
          /\ current_variables' = current_variables
          /\ original_variables' = original_variables]_vars

\* a refused second create_variable of a name whose current variable has
\* been replaced since it was created
C10_Witness ==
    /\ lastOp.op = "create_variable"
    /\ ~lastOp.ok
    /\ current_variables[lastOp.node][lastOp.args[1]]
           # original_variables[lastOp.node][lastOp.args[1]]

\* C11: original_variables[name] is, from its creation on, the variable
\* create_variable made for the name; current_variables[name] is that
\* variable until a replace_variable, and then the argument of the latest
\* successful replace_variable(name, ...); a replace_variable changes no
\* other entry of the two maps.
C11_AuditTrail ==
    [][\A n \in Nodes :
          /\ \A name \in DOMAIN original_variables[n] :
                 /\ name \in DOMAIN original_variables'[n]
                 /\ original_variables'[n][name] = original_variables[n][name]
          /\ \A name \in DOMAIN original_variables'[n] \
                            DOMAIN original_variables[n] :
                 /\ lastOp' = Op("create_variable", n, <<name>>, TRUE)
                 /\ original_variables'[n][name].name = Variable(n, name, 0).name
                 /\ original_variables'[n][name].ver = 0
                 /\ name \in DOMAIN current_variables'[n]
                 /\ current_variables'[n][name] = original_variables'[n][name]
          /\ \A name \in DOMAIN current_variables[n] :
                 /\ name \in DOMAIN current_variables'[n]
                 /\ current_variables'[n][name] # current_variables[n][name]
                       => lastOp' = Op("replace_variable", n,
                                       <<name, current_variables'[n][name]>>,
                                       TRUE)
          /\ (Idle /\ lastOp'.op = "replace_variable" /\ lastOp'.ok
                   /\ lastOp'.node = n)
                => current_variables'[n][lastOp'.args[1]] = lastOp'.args[2]
      ]_vars

\* a replace_variable has just put a replacement in the place of a name's
\* variable while another name of the node holds a replacement of its own
C11_Witness ==
    /\ lastOp.op = "replace_variable"
    /\ lastOp.ok
    /\ lastOp.args[2].ver = 2
    /\ original_variables[lastOp.node][lastOp.args[1]].ver = 0
    /\ \E other \in DOMAIN current_variables[lastOp.node] \ {lastOp.args[1]} :
           /\ current_variables[lastOp.node][other].ver = 1
           /\ original_variables[lastOp.node][other].ver = 0

\* C12: set_data for a key that the node's additional_data holds, or that
\* names one of the node's variables, fails and leaves additional_data as
\* it was; for any other key it stores the value; a stored value never
\* changes, and get_data returns the stored value.
C12_SetDataWriteOnce ==
    [][/\ (Idle /\ lastOp'.op = "set_data")
          => IF \/ lastOp'.args[1] \in DOMAIN additional_data[lastOp'.node]
                \/ lastOp'.args[1] \in
                       DOMAIN current_variables[lastOp'.node]
                \/ lastOp'.args[1] \in
                       DOMAIN original_variables[lastOp'.node]
             THEN /\ ~lastOp'.ok
                  /\ additional_data' = additional_data
             ELSE /\ lastOp'.ok
                  /\ additional_data' =
                         [additional_data EXCEPT ![lastOp'.node] =
                             Put(@, lastOp'.args[1], lastOp'.args[2])]
       /\ \A n \in Nodes : \A k \in DOMAIN additional_data[n] :
              /\ k \in DOMAIN additional_data'[n]
              /\ additional_data'[n][k] = additional_data[n][k]
       /\ (Idle /\ lastOp'.op = "get_data" /\ lastOp'.ok)
          => /\ lastOp'.args[1] \in DOMAIN additional_data[lastOp'.node]
             /\ lastOp'.val =
                    additional_data[lastOp'.node][lastOp'.args[1]]
      ]_vars

\* a set_data with another value for a stored key was refused, in a
\* network where some node holds a variable named like a data key
C12_Witness ==
    /\ lastOp.op = "set_data"
    /\ ~lastOp.ok
    /\ lastOp.args[1] \in DOMAIN additional_data[lastOp.node]
    /\ additional_data[lastOp.node][lastOp.args[1]] # lastOp.args[2]
    /\ \E n \in Nodes : DOMAIN current_variables[n] \cap DataKeys # {}

----------------------------------------------------------------------------
(* Properties of the later phases of build().                              *)

\* the nodes whose hook has written a rule for var
Writers(var) == {n \in Nodes : <<n, var>> \in rules_written}

\* C13: the mutate_update_deltas hook of a node is invoked after those of
\* all its ancestors, all hooks write into the network's one
\* delta set, and the rule that set holds for a variable is never the rule
\* of a node that has a descendant which wrote one too: of a parent and a
\* descendant that both wrote, the descendant's rule stays.
C13_UpdateOverride ==
    /\ \A j \in DOMAIN log :
           log[j].ev = "mutate_update_deltas"
           => \A a \in Ancestors(log[j].node) :
                  \E i \in 1..(j - 1) :
                      log[i] = Event("mutate_update_deltas", a)
    /\ \A var \in SharedVariables :
           IF Writers(var) = {} THEN var \notin DOMAIN update_deltas
           ELSE /\ var \in DOMAIN update_deltas
                /\ update_deltas[var] \in Writers(var)
                /\ \A d \in Writers(var) :
                       update_deltas[var] \notin Ancestors(d)
                /\ \A a, d \in Nodes :
                       (a \in Ancestors(d) /\ Writers(var) = {a, d})
                       => update_deltas[var] = d

\* build() has ended after a parent and one of its children, and nobody
\* else, wrote a rule for the same variable
C13_Witness ==
    /\ pc = "built"
    /\ \E var \in SharedVariables : \E a, d \in Nodes :
           /\ a \in Ancestors(d)
           /\ Writers(var) = {a, d}
           /\ update_deltas[var] = d

\* C14: compute_output of a node is invoked only when every input key the
\* node declares has an incoming edge in the frozen graph; when a declared
\* key has none, build() fails at the lookup, before the hook is invoked,
\* and after build() has failed no hook is invoked and the delta set is
\* not written any more.
C14_UnresolvedInput ==
    [][/\ (Idle /\ pc = "compute_output" /\ ~inHook /\ log' # log)
          => \A k \in DOMAIN inputs'[HookNode] :
                 input_edges_for_node(HookNode, k) # {}
       /\ (Idle /\ lastOp'.op = "lookup_inputs")
          => /\ ~lastOp'.ok
             /\ pc = "compute_output" /\ ~inHook
             /\ lastOp'.node = HookNode
             /\ pc' = "aborted"
             /\ log' = log
       /\ (Idle /\ pc = "compute_output" /\ ~inHook
               /\ lastOp'.op = "lookup_inputs"
               /\ \E i \in DOMAIN lastOp'.args :
                      input_edges_for_node(HookNode, lastOp'.args[i]) = {})
          => (pc' = "aborted" /\ log' = log)
       /\ pc = "aborted"
          => /\ pc' = "aborted"
             /\ log' = log
             /\ update_deltas' = update_deltas
      ]_vars

\* build() failed at the lookup of an input key without an incoming edge,
\* for a node that is not the last of the output loop, after the
\* compute_output hook of another node had run
C14_Witness ==
    /\ pc = "aborted"
    /\ lastOp.op = "lookup_inputs"
    /\ \E i \in DOMAIN lastOp.args :
           input_edges_for_node(lastOp.node, lastOp.args[i]) = {}
    /\ idx < Len(order)
    /\ \E j \in DOMAIN log : log[j].ev = "compute_output"
    /\ \A j \in DOMAIN log :
           /\ log[j] # Event("compute_output", lastOp.node)
           /\ log[j].ev # "mutate_update_deltas"

\* C15: when a compute_output hook returns a value other than None,
\* build() fails on the spot: the loop does not go on to a later node, the
\* update phase does not start, and no hook is invoked afterwards.
C15_OutputMustBeNone ==
    [][/\ (Idle /\ lastOp'.op = "assert_output_res")
          => /\ ~lastOp'.ok
             /\ pc = "compute_output" /\ inHook
             /\ pc' = "aborted" /\ ~inHook'
             /\ log' = log
       /\ pc = "aborted" => (pc' = "aborted" /\ ~inHook' /\ log' = log)
      ]_vars

\* build() failed on the value returned by the first compute_output hook
\* of a loop over several nodes
C15_Witness ==
    /\ pc = "aborted"
    /\ lastOp.op = "assert_output_res"
    /\ idx = 1
    /\ Len(order) > 1
    /\ log[Len(log)] = Event("compute_output", order[1])

\* C16: a forward_input_to on a node without an incoming edge at port
\* previous_to_key leaves the dependency graph as it is; with
\* ignore_no_input true it raises nothing and changes nothing, with
\* ignore_no_input false it fails.
C16_ForwardInputNoInput ==
    [][(Idle /\ lastOp'.op = "forward_input_to_none")
          => /\ input_edges_for_node(lastOp'.node, lastOp'.args[1]) = {}
             /\ lastOp'.ok = lastOp'.args[2]
             /\ edges' = edges
             /\ is_mutable' = is_mutable
             /\ lastOp'.ok => UNCHANGED <<buildVars, storeVars>>
      ]_vars

\* a hook of a node without input forwarded its input, before the freeze
\* and in a graph that has edges, and nothing happened
C16_Witness ==
    /\ lastOp.op = "forward_input_to_none"
    /\ lastOp.ok
    /\ inHook
    /\ is_mutable
    /\ edges # {}

\* C17 as stated: is_built is true exactly when build() has run all its
\* phases to the end of the update loop.
C17_BuiltIffUpdatesComputed == is_built <=> pc = "built"

\* C17, amended: is_built is true exactly when build() has constructed the
\* graph, which is from its first step on: while its loops run, inside
\* every hook, after it has returned and after it has failed; once true
\* it stays true.
C17_BuiltIffGraphConstructed ==
    [][/\ is_built <=> pc # "unbuilt"
       /\ is_built => is_built'
       /\ is_built' <=> pc' # "unbuilt"]_vars

\* is_built is true inside a hook of the first loop, before any output or
\* update hook has run
C17_Witness ==
    /\ is_built
    /\ inHook
    /\ pc = "init_long_range_dependencies"
    /\ \A j \in DOMAIN log :
           log[j].ev \notin {"compute_output", "mutate_update_deltas"}

\* C18: in every state the keys of a node's additional_data are disjoint
\* from the names of the node's variables, the keys of its
\* current_variables and original_variables.
C18_DataKeysDisjoint ==
    \A n \in Nodes :
        DOMAIN additional_data[n] \cap
            (DOMAIN current_variables[n] \cup DOMAIN original_variables[n])
        = {}

\* C19: the variable that create_variable makes on node N for local name
\* L carries the name "N:L" and is stored under key L of N's
\* current_variables and original_variables; the call changes no other
\* entry of N and nothing in the variable maps of any other node.
C19_CompositeName ==
    [][(Idle /\ lastOp'.op = "create_variable")
          => /\ lastOp'.ok
                => /\ current_variables'[lastOp'.node][lastOp'.args[1]].name
                          = lastOp'.node \o ":" \o lastOp'.args[1]
                   /\ current_variables' =
                          [current_variables EXCEPT ![lastOp'.node] =
                              Put(@, lastOp'.args[1],
                                  current_variables'[lastOp'.node][
                                      lastOp'.args[1]])]
                   /\ original_variables' =
                          [original_variables EXCEPT ![lastOp'.node] =
                              Put(@, lastOp'.args[1],
                                  current_variables'[lastOp'.node][
                                      lastOp'.args[1]])]
             /\ \A m \in Nodes \ {lastOp'.node} :
                    /\ current_variables'[m] = current_variables[m]
                    /\ original_variables'[m] = original_variables[m]
      ]_vars

\* the weight of node "lm" has just been created as "lm:weight", beside a
\* variable of the same local name that another node holds
C19_Witness ==
    /\ lastOp = Op("create_variable", "lm", <<"weight">>, TRUE)
    /\ current_variables["lm"]["weight"].name = "lm:weight"
    /\ original_variables["lm"]["weight"].name = "lm:weight"
    /\ \E m \in Nodes \ {"lm"} :
           /\ "weight" \in DOMAIN current_variables[m]
           /\ current_variables[m]["weight"].name # "lm:weight"

----------------------------------------------------------------------------
(* RelativeNetwork.find_vws_in_subtree (network.py 344-360) on built       *)
(* networks whose nodes create and replace variables.                      *)

\* TreeanoGraph.architecture_subtree_names: the node and its descendants
architecture_subtree_names(n) == SeqToSet(PreOrder(<<n>>))

\* an optional argument: <<>> when left at None, <<v>> when given as v
TagQueries ==
    {<<>>, <<{"parameter"}>>, <<{"output"}>>, <<{"parameter", "weight"}>>,
     <<{"output", "weight"}>>}

SharedQueries == {<<>>, <<TRUE>>, <<FALSE>>}

\* a search that reads the first-created variables
find_vws_original(n, tags, is_shared) ==
    LET remaining_vws ==
            UNION {{original_variables[m][l] :
                       l \in DOMAIN original_variables[m]} :
                      m \in architecture_subtree_names(n)}
        by_tags ==
            IF Len(tags) = 1
            THEN {v \in remaining_vws : tags[1] \ v.tags = {}}
            ELSE remaining_vws
    IN IF Len(is_shared) = 1
       THEN {v \in by_tags : v.is_shared = is_shared[1]}
       ELSE by_tags

\* the wrappers find_vws_in_subtree returns
find_vws(n, tags, is_shared) ==
    LET remaining_vws ==
            UNION {{current_variables[m][l] :
                       l \in DOMAIN current_variables[m]} :
                      m \in architecture_subtree_names(n)}
        by_tags ==
            IF Len(tags) = 1
            THEN {v \in remaining_vws : tags[1] \ v.tags = {}}
            ELSE remaining_vws
    IN IF Len(is_shared) = 1
       THEN {v \in by_tags : v.is_shared = is_shared[1]}
       ELSE by_tags

find_vws_in_subtree(n, tags, is_shared) ==
    /\ CanCall
    /\ lastOp' = OpVal("find_vws_in_subtree", n, <<tags, is_shared>>, TRUE,
                       find_vws(n, tags, is_shared))
    /\ UNCHANGED <<buildVars, graphVars, storeVars, hpVars, root_node>>

MaxVws == 2

InitFind ==
    /\ \E tree \in {SeqTree, ChainTree} : BuiltState(tree)
    /\ override_hyperparameters = EmptyMap
    /\ default_hyperparameters = [batch_axis |-> "0"]
    /\ node_hyperparameters = [n \in Nodes |-> EmptyMap]

NextFind ==
    \/ TakeOutcome
    \/ /\ Idle
       /\ Cardinality(VariableEntries) < MaxVws
       /\ \E n \in Nodes : \E name \in LocalNames : create_variable(n, name)
    \/ /\ Idle
       /\ \E nl \in VariableEntries : \E v \in Versions :
              replace_variable(nl[1], nl[2], Variable(nl[1], nl[2], v))
    \/ \E n \in Nodes : \E tags \in TagQueries :
           \E is_shared \in SharedQueries :
               find_vws_in_subtree(n, tags, is_shared)

SpecFind == InitFind /\ [][NextFind]_vars

\* C20: find_vws_in_subtree on node N returns exactly the current
\* variables of N and of the nodes below N that carry every tag of tags,
\* when tags is given, and whose is_shared equals is_shared, when that is
\* given; with neither given, every current variable of those nodes.
C20_FindVwsInSubtree ==
    lastOp.op = "find_vws_in_subtree"
    => /\ \A v \in lastOp.val :
              \E m \in Nodes : \E l \in DOMAIN current_variables[m] :
                  v = current_variables[m][l]
       /\ \A m \in Nodes : \A l \in LocalNames :
              LET inSubtree == m = lastOp.node \/ lastOp.node \in Ancestors(m)
                  tags == lastOp.args[1]
                  is_shared == lastOp.args[2]
              IN /\ (/\ inSubtree
                     /\ l \in DOMAIN current_variables[m]
                     /\ \A i \in DOMAIN tags :
                            tags[i] \subseteq current_variables[m][l].tags
                     /\ \A i \in DOMAIN is_shared :
                            current_variables[m][l].is_shared = is_shared[i])
                    => current_variables[m][l] \in lastOp.val
                 /\ \A v \in lastOp.val :
                        v.name = Variable(m, l, 0).name
                        => /\ inSubtree
                           /\ l \in DOMAIN current_variables[m]
                           /\ v = current_variables[m][l]
                           /\ \A i \in DOMAIN tags : tags[i] \subseteq v.tags
                           /\ \A i \in DOMAIN is_shared :
                                  v.is_shared = is_shared[i]

\* a search for shared parameters at a node that is not the root found
\* none: it left out a replaced variable of that node, whose first-created
\* version is shared, and a shared variable of the root, outside the subtree
C20_Witness ==
    /\ lastOp.op = "find_vws_in_subtree"
    /\ lastOp.node # Root
    /\ lastOp.args = <<(<<{"parameter"}>>), <<TRUE>> >>
    /\ lastOp.val = {}
    /\ \E l \in DOMAIN current_variables[lastOp.node] :
           /\ original_variables[lastOp.node][l].is_shared
           /\ ~current_variables[lastOp.node][l].is_shared
    /\ \E l \in DOMAIN current_variables[Root] :
           current_variables[Root][l].is_shared

----------------------------------------------------------------------------
(* The order in which the hierarchy tier reads set_hyperparameters.        *)

\* the chain walked for the node that asked
QChain == <<QNode>> \o architecture_ancestors(QNode)

\* (i, q, j) comes before (i2, q2, j2) in the order chain node, key, prefix
Before(i, q, j, i2, q2, j2) ==
    \/ i < i2
    \/ i = i2 /\ q < q2
    \/ i = i2 /\ q = q2 /\ j < j2

\* the record of holder has, at target, a value for key
Pushed(holder, target, k) ==
    /\ target \in DOMAIN set_hyperparameters[holder]
    /\ k \in DOMAIN set_hyperparameters[holder][target]

\* chain node i provides key q itself
ProvidedAt(i, q) == QKeys[q] \in DOMAIN node_hyperparameters[QChain[i]]

\* chain node, key and visited node, by their positions
Positions ==
    {p \in (DOMAIN QChain) \X (DOMAIN QKeys) \X (DOMAIN QChain) :
        p[3] <= p[1]}

\* C21 as stated: at chain node A = QChain[i] the search reads, for the
\* visited nodes B = QChain[j], the record of B at target A, and returns
\* the first value found.
C21_RecordOfVisitedAtChainNode ==
    (IsFind /\ ~KeyIn(QKeys, override_hyperparameters))
    => \A p \in Positions :
           (/\ Pushed(QChain[p[3]], QChain[p[1]], QKeys[p[2]])
            /\ \A r \in Positions :
                   Pushed(QChain[r[3]], QChain[r[1]], QKeys[r[2]])
                   => ~Before(r[1], r[2], r[3], p[1], p[2], p[3])
            /\ \A i \in DOMAIN QChain : \A q \in DOMAIN QKeys :
                   ProvidedAt(i, q) => ~Before(i, q, 0, p[1], p[2], 0))
           => /\ lastOp.ok
              /\ lastOp.val =
                     set_hyperparameters[QChain[p[3]]][QChain[p[1]]][QKeys[p[2]]]

\* C21, amended: at chain node A = QChain[i] the search reads, for the
\* visited nodes B = QChain[j], closest to the asking node first, the
\* record of A at target B (what A has set for B), and returns the first
\* value found.
C21_RecordOfChainNodeAtVisited ==
    (IsFind /\ ~KeyIn(QKeys, override_hyperparameters))
    => \A p \in Positions :
           (/\ Pushed(QChain[p[1]], QChain[p[3]], QKeys[p[2]])
            /\ \A r \in Positions :
                   Pushed(QChain[r[1]], QChain[r[3]], QKeys[r[2]])
                   => ~Before(r[1], r[2], r[3], p[1], p[2], p[3])
            /\ \A i \in DOMAIN QChain : \A q \in DOMAIN QKeys :
                   ProvidedAt(i, q) => ~Before(i, q, 0, p[1], p[2], 0))
           => /\ lastOp.ok
              /\ lastOp.val =
                     set_hyperparameters[QChain[p[1]]][QChain[p[3]]][QKeys[p[2]]]

\* the value returned is the one the root has set for the asking leaf,
\* while the leaf's own record holds another value at the root as target
C21_Witness ==
    /\ IsFind
    /\ ~KeyIn(QKeys, override_hyperparameters)
    /\ Len(QChain) = 3
    /\ Pushed(QChain[3], QChain[1], QKeys[1])
    /\ Pushed(QChain[1], QChain[3], QKeys[1])
    /\ lastOp.val = set_hyperparameters[QChain[3]][QChain[1]][QKeys[1]]
    /\ lastOp.val # set_hyperparameters[QChain[1]][QChain[3]][QKeys[1]]

\* what chain node x holds for key k, seen from the asking node
HeldAt(x, k) == SetFor(x, QNode, k) \cup ProvidedFor(x, k)

\* chain node a is the nearest one that holds anything for a candidate key
NearestHolder(a) ==
    /\ IsFind
    /\ Len(QKeys) = 2
    /\ ~KeyIn(QKeys, override_hyperparameters)
    /\ a \in {QNode} \cup Ancestors(QNode)
    /\ \A x \in PathUp(QNode, a) \ {a} :
           HeldAt(x, QKeys[1]) = {} /\ HeldAt(x, QKeys[2]) = {}

\* C22: for keys [k1, k2], when the nearest chain node that holds
\* anything holds a value for k2 only and a farther chain node holds one
\* for k1, find_hyperparameter returns the nearer node's k2 value; when
\* one chain node holds values for both keys it returns its k1 value.
C22_CloserBeforeEarlierKey ==
    \A a \in Nodes :
        NearestHolder(a)
        => /\ (/\ HeldAt(a, QKeys[1]) = {}
               /\ HeldAt(a, QKeys[2]) # {}
               /\ \E b \in Ancestors(a) : HeldAt(b, QKeys[1]) # {})
              => (lastOp.ok /\ lastOp.val \in HeldAt(a, QKeys[2]))
           /\ (HeldAt(a, QKeys[1]) # {} /\ HeldAt(a, QKeys[2]) # {})
              => (lastOp.ok /\ lastOp.val \in HeldAt(a, QKeys[1]))

\* the nearer node's value for the second key was returned, and it is not
\* a value the farther node holds for the first key
C22_Witness ==
    \E a \in Nodes :
        /\ NearestHolder(a)
        /\ HeldAt(a, QKeys[1]) = {}
        /\ HeldAt(a, QKeys[2]) # {}
        /\ \E b \in Ancestors(a) :
               /\ HeldAt(b, QKeys[1]) # {}
               /\ lastOp.val \notin HeldAt(b, QKeys[1])

\* ------------------------------------------------------------------
\* Everything find_hyperparameters yields
\* ------------------------------------------------------------------

IsList == lastOp.op = "find_hyperparameters"

\* a place a value can come from, for the question (n, keys, d), as
\* <<tier, chain position, key position, prefix position>>; prefix
\* position 0 stands for the value the chain node itself provides
MatchSlots(n, keys, d) ==
    LET chain == <<n>> \o architecture_ancestors(n)
    IN {<<1, 0, q, 0>> : q \in {i \in DOMAIN keys :
                                   keys[i] \in DOMAIN override_hyperparameters}}
       \cup {p \in {2} \X (DOMAIN chain) \X (DOMAIN keys) \X (DOMAIN chain) :
                 /\ p[4] <= p[2]
                 /\ chain[p[4]] \in DOMAIN set_hyperparameters[chain[p[2]]]
                 /\ keys[p[3]] \in
                       DOMAIN set_hyperparameters[chain[p[2]]][chain[p[4]]]}
       \cup {p \in {2} \X (DOMAIN chain) \X (DOMAIN keys) \X {0} :
                 keys[p[3]] \in DOMAIN node_hyperparameters[chain[p[2]]]}
       \cup (IF d # NoDefaultValue THEN {<<3, 0, 0, 0>>} ELSE {})
       \cup {<<4, 0, q, 0>> : q \in {i \in DOMAIN keys :
                                   keys[i] \in DOMAIN default_hyperparameters}}

\* the value found at a slot
SlotValue(n, keys, d, p) ==
    LET chain == <<n>> \o architecture_ancestors(n)
    IN CASE p[1] = 1 -> override_hyperparameters[keys[p[3]]]
         [] p[1] = 2 /\ p[4] > 0 ->
                set_hyperparameters[chain[p[2]]][chain[p[4]]][keys[p[3]]]
         [] p[1] = 2 /\ p[4] = 0 -> node_hyperparameters[chain[p[2]]][keys[p[3]]]
         [] p[1] = 3 -> d
         [] p[1] = 4 -> default_hyperparameters[keys[p[3]]]

\* precedence: tier, then nearer chain node, then earlier key, then the
\* pushed values closest target first, then the node-provided value
Precedes(p, r) ==
    \/ p[1] < r[1]
    \/ p[1] = r[1] /\ p[2] < r[2]
    \/ p[1] = r[1] /\ p[2] = r[2] /\ p[3] < r[3]
    \/ /\ p[1] = r[1] /\ p[2] = r[2] /\ p[3] = r[3]
       /\ p[4] # r[4]
       /\ r[4] = 0 \/ (p[4] # 0 /\ p[4] < r[4])

RECURSIVE InPrecedenceOrder(_, _, _, _)
InPrecedenceOrder(n, keys, d, S) ==
    IF S = {} THEN <<>>
    ELSE LET first == CHOOSE p \in S : \A r \in S \ {p} : Precedes(p, r)
         IN <<SlotValue(n, keys, d, first)>>
            \o InPrecedenceOrder(n, keys, d, S \ {first})

AllMatches(n, keys, d) == InPrecedenceOrder(n, keys, d, MatchSlots(n, keys, d))

\* a list holds every match in precedence order, and a single lookup
\* returns the first element of that list or fails when it is empty
C23_Sequence ==
    /\ IsList => lastOp.val = AllMatches(QNode, QKeys, QDefault)
    /\ IsFind =>
          /\ lastOp.ok <=> AllMatches(QNode, QKeys, QDefault) # <<>>
          /\ lastOp.ok => lastOp.val = AllMatches(QNode, QKeys, QDefault)[1]

\* a second list of the same question, taken right after the first
C23_Repeat ==
    (/\ IsList
     /\ lastOp'.op = "find_hyperparameters"
     /\ lastOp'.node = lastOp.node
     /\ lastOp'.args = lastOp.args)
    => lastOp'.val = lastOp.val

\* C23: find_hyperparameters yields every match in precedence order
\* (override values per key; per chain node and key the pushed values,
\* closest target first, then the node-provided value; the caller default
\* if supplied; the global defaults per key), find_hyperparameter returns
\* exactly the first element, and two calls with no state change in
\* between yield the same sequence.
C23_AllMatchesInOrder == []C23_Sequence /\ [][C23_Repeat]_vars

\* a list of three values: a pushed and a provided value for the same key
\* at one chain node, then the caller's default
C23_Witness ==
    /\ IsList
    /\ Len(lastOp.val) = 3
    /\ lastOp.val[3] = QDefault
    /\ \E p, r \in MatchSlots(QNode, QKeys, QDefault) :
           /\ p[1] = 2 /\ r[1] = 2
           /\ p[2] = r[2] /\ p[3] = r[3]
           /\ p[4] > 0 /\ r[4] = 0
           /\ SlotValue(QNode, QKeys, QDefault, p)
                  # SlotValue(QNode, QKeys, QDefault, r)

----------------------------------------------------------------------------
(* The output loop of build() (network.py 88-109) from the freeze on, on   *)
(* the three-node network, over the dependency graphs the hooks of the    *)
(* first two loops can have left.                                         *)

DependencyChoices ==
    SUBSET {Edge("i", "lm", "default", "default"),
            Edge("seq", "i", "default", "default"),
            Edge("seq", "lm", "default", "default")}

InitCompute ==
    /\ root_node = SeqTree
    /\ is_built = TRUE
    /\ pc = "compute_output"
    /\ idx = 1
    /\ inHook = FALSE
    /\ is_mutable = FALSE
    /\ edges \in DependencyChoices
    /\ order = ComputeOrder
    /\ log = HookEvents("init_long_range_dependencies",
                        architectural_tree_nodes_root_to_leaves)
                 \o HookEvents("init_state",
                               architectural_tree_nodes_root_to_leaves)
                 \o <<Event("freeze", "")>>
    /\ rules_written = {}
    /\ entry = NoEntry
    /\ current_variables = [n \in Nodes |-> EmptyMap]
    /\ original_variables = [n \in Nodes |-> EmptyMap]
    /\ additional_data = [n \in Nodes |-> EmptyMap]
    /\ set_hyperparameters = [n \in Nodes |-> EmptyMap]
    /\ inputs = [n \in Nodes |-> EmptyMap]
    /\ update_deltas = EmptyMap
    /\ override_hyperparameters = EmptyMap
    /\ default_hyperparameters = [batch_axis |-> "0"]
    /\ node_hyperparameters = [n \in Nodes |-> EmptyMap]
    /\ lastOp = NoOp

NextCompute ==
    \/ TakeOutcome
    \/ CallComputeOutput
    \/ CallHook
    \/ ReturnHook
    \/ \E n \in Nodes : create_variable(n, "default")
    \/ \E n \in Nodes : \E v \in Versions :
           replace_variable(n, "default", Variable(n, "default", v))

SpecCompute == InitCompute /\ [][NextCompute]_vars

\* node.compute_output is invoked for the node the output loop is at
ComputeOutputInvoked ==
    /\ pc = "compute_output"
    /\ ~inHook
    /\ inHook'
    /\ log' = Append(log, Event("compute_output", HookNode))

----------------------------------------------------------------------------
(* replace_variable on a name the node never created, and the key sets of *)
(* the two variable maps.                                                  *)

IsReplace == lastOp'.op = "replace_variable" /\ lastOp.op # "replace_variable"

\* C25: replace_variable fails when the local name is not a key of the
\* node's original_variables, and a failing call leaves current_variables
\* and original_variables as they were.
C25_ReplaceUnknownFails ==
    [][IsReplace =>
          /\ lastOp'.args[1] \notin DOMAIN original_variables[lastOp'.node]
                 => ~lastOp'.ok
          /\ ~lastOp'.ok =>
                 /\ current_variables' = current_variables
                 /\ original_variables' = original_variables]_vars

\* a replace_variable has failed on a node that holds another variable
C25_Witness ==
    /\ lastOp.op = "replace_variable"
    /\ ~lastOp.ok
    /\ lastOp.args[1] \notin DOMAIN current_variables[lastOp.node]
    /\ DOMAIN original_variables[lastOp.node] # {}

\* C26: in every state, each node's current_variables and
\* original_variables hold the same local names, whatever create_variable,
\* copy_variable and replace_variable calls, failed ones included, were made.
C26_SameKeys ==
    \A n \in Nodes :
        DOMAIN current_variables[n] = DOMAIN original_variables[n]

\* a node holds a created, a copied and a replaced variable, and a call
\* on one of the three operations has just failed
C26_Witness ==
    /\ lastOp.op \in {"create_variable", "replace_variable"}
    /\ ~lastOp.ok
    /\ \E n \in Nodes :
           /\ Cardinality(DOMAIN current_variables[n]) = 2
           /\ \E name \in DOMAIN current_variables[n] :
                  current_variables[n][name] # original_variables[n][name]
           /\ \E name \in DOMAIN current_variables[n] :
                  current_variables[n][name].variable # n \o ":" \o name

----------------------------------------------------------------------------
(* Which nodes a value stored with set_hyperparameter can reach.           *)

Descendants(n) == {m \in Nodes : n \in Ancestors(m)}

\* the entries of the set_hyperparameters records, as <<holder, target, key>>,
\* that a step has added or given another value
ChangedEntries ==
    {e \in Nodes \X Nodes \X HPKeys :
        /\ e[2] \in DOMAIN set_hyperparameters'[e[1]]
        /\ e[3] \in DOMAIN set_hyperparameters'[e[1]][e[2]]
        /\ ~(/\ e[2] \in DOMAIN set_hyperparameters[e[1]]
             /\ e[3] \in DOMAIN set_hyperparameters[e[1]][e[2]]
             /\ set_hyperparameters[e[1]][e[2]][e[3]]
                  = set_hyperparameters'[e[1]][e[2]][e[3]])}

\* holder a is n or an ancestor of n, and target t lies on the path from n
\* up to a
InScope(a, t, n) == a \in {n} \cup Ancestors(n) /\ t \in PathUp(n, a)

\* a step that stores a value out of the scope of node n changes nothing
\* that a search from n yields
C27_OutOfScopeUnseen ==
    \A n \in Nodes :
        (/\ ChangedEntries # {}
         /\ \A e \in ChangedEntries : ~InScope(e[1], e[2], n))
        => \A keys \in KeyLists : \A d \in DefaultValues :
               find_hyperparameters(n, keys, d)'
                   = find_hyperparameters(n, keys, d)

\* a value pushed to the pusher itself or to a descendant t is among the
\* values a search from t or from a descendant of t yields
C27_InScopeSeen ==
    IsList =>
        \A e \in SetEntries :
            (/\ e[2] \in {e[1]} \cup Descendants(e[1])
             /\ QNode \in {e[2]} \cup Descendants(e[2])
             /\ e[3] \in SeqToSet(QKeys))
            => \E i \in DOMAIN lastOp.val :
                   lastOp.val[i] = set_hyperparameters[e[1]][e[2]][e[3]]

\* C27: a value node A stores with set_hyperparameter(T, key, value) can
\* influence a search from node N only if A is N or an ancestor of N and T
\* lies on the path from N up to A; so a value pushed to the pusher or to
\* a descendant T is seen from T and from every descendant of T, and a
\* value pushed to any other target is never returned to any node.
C27_PushScope == []C27_InScopeSeen /\ [][C27_OutOfScopeUnseen]_vars

\* a search from the innermost node has yielded the only value held, one
\* its grandparent pushed to its parent, while the innermost node holds a
\* value it pushed to the grandparent
C27_Witness ==
    /\ IsList
    /\ QNode = "fc_linear"
    /\ SetEntries = {<<"fc", "fc_sequential", QKeys[1]>>,
                     <<"fc_linear", "fc", QKeys[1]>>}
    /\ ProvidedEntries = {}
    /\ lastOp.val = <<set_hyperparameters["fc"]["fc_sequential"][QKeys[1]]>>
    /\ set_hyperparameters["fc_linear"]["fc"][QKeys[1]]
          # set_hyperparameters["fc"]["fc_sequential"][QKeys[1]]

----------------------------------------------------------------------------
(* The calls on a Network that build it lazily (network.py 120-203):       *)
(* relative_network, __getitem__, network_variable and function.  A call   *)
(* on an unbuilt network waits in entry while build() runs; a call made    *)
(* while build() runs, or after it, is answered at once.                   *)

\* build() past its guard: the graph and the empty node states
StartBuild ==
    /\ is_built' = TRUE
    /\ is_mutable' = TRUE
    /\ edges' = {}
    /\ current_variables' = [n \in Nodes |-> EmptyMap]
    /\ original_variables' = [n \in Nodes |-> EmptyMap]
    /\ additional_data' = [n \in Nodes |-> EmptyMap]
    /\ set_hyperparameters' = [n \in Nodes |-> EmptyMap]
    /\ inputs' = [n \in Nodes |-> EmptyMap]
    /\ pc' = "init_long_range_dependencies"
    /\ idx' = 1
    /\ UNCHANGED <<inHook, order, log, rules_written, update_deltas>>

\* the node names handed to network[node_name]
NodeNames == Nodes \cup {"unknown"}

\* the queries network_variable tells apart: a node name, a (node name,
\* key) pair, and anything else, which it takes for a variable
Queries ==
    {[kind |-> "name", node |-> n, key |-> "default"] : n \in Nodes}
        \cup {[kind |-> "tuple", node |-> n, key |-> "weight"] : n \in Nodes}
        \cup {[kind |-> "variable", node |-> "", key |-> "var"]}

\* the inputs lists handed to function
FunctionInputs ==
    {<<>>} \cup {<<q>> : q \in {x \in Queries : x.kind = "name"}}

\* self[node_name].get_variable(from_key) finds a variable
Resolves(q) ==
    q.kind = "variable" \/ q.key \in DOMAIN current_variables[q.node]

\* what a call answers once the graph exists
AnswerOf(call) ==
    CASE call.op = "relative_network" -> call
      [] call.op = "__getitem__" -> [call EXCEPT !.ok = call.node \in Nodes]
      [] call.op = "network_variable" ->
             IF Resolves(call.args)
             THEN [call EXCEPT
                      !.val = current_variables[call.args.node]
                                               [call.args.key].variable]
             ELSE [call EXCEPT !.ok = FALSE]
      [] call.op = "function" ->
             [call EXCEPT
                 !.ok = \A i \in DOMAIN call.args : Resolves(call.args[i])]

\* a call whose first statement is self.build(), made again on every call
BuildThenAnswer_restarting(call) ==
    /\ Idle
    /\ pc \in Returned => entry = NoEntry
    /\ entry = NoEntry \/ is_built
    /\ StartBuild
    /\ entry' = IF entry = NoEntry THEN call ELSE entry
    /\ UNCHANGED lastOp
    /\ UNCHANGED <<hpVars, root_node>>

\* a call whose first statement is self.build(): on an unbuilt network
\* the build starts and the call waits for it; otherwise build() returns
\* at once and the call is answered
BuildThenAnswer(call) ==
    /\ Idle
    /\ pc \in Returned => entry = NoEntry
    /\ IF is_built
       THEN /\ lastOp' = AnswerOf(call)
            /\ IF AnswerOf(call).ok THEN UNCHANGED buildVars
               ELSE \E caught \in BOOLEAN : Raise(caught)
            /\ UNCHANGED <<graphVars, storeVars>>
       ELSE /\ StartBuild
            /\ entry' = call
            /\ UNCHANGED lastOp
    /\ UNCHANGED <<hpVars, root_node>>

relative_network(n) ==
    BuildThenAnswer(OpVal("relative_network", n, <<>>, TRUE, ""))

getitem(node_name) ==
    BuildThenAnswer(OpVal("__getitem__", node_name, <<>>, TRUE, ""))

\* network_variable: a query that is neither a name nor a pair is
\* returned as it is, with no call of build()
network_variable(query) ==
    IF query.kind = "variable"
    THEN /\ Idle
         /\ pc \in Returned => entry = NoEntry
         /\ lastOp' = OpVal("network_variable", "", query, TRUE, query.key)
         /\ UNCHANGED <<buildVars, graphVars, storeVars, hpVars, root_node>>
    ELSE BuildThenAnswer(OpVal("network_variable", query.node, query,
                               TRUE, ""))

function(fn_inputs) ==
    BuildThenAnswer(OpVal("function", "", fn_inputs, TRUE, ""))

\* build() has returned to the call that started it, or has raised
\* through it
ReturnToCaller ==
    /\ Idle
    /\ entry # NoEntry
    /\ pc \in Returned
    /\ entry' = NoEntry
    /\ lastOp' = IF pc = "built" THEN AnswerOf(entry)
                 ELSE [entry EXCEPT !.ok = FALSE]
    /\ UNCHANGED <<is_built, pc, idx, inHook, order, log, rules_written,
                   graphVars, storeVars, hpVars, root_node>>

NextLazy ==
    \/ TakeOutcome
    \/ build
    \/ \E n \in Nodes : relative_network(n)
    \/ \E name \in NodeNames : getitem(name)
    \/ \E q \in Queries : network_variable(q)
    \/ \E fn_inputs \in FunctionInputs : function(fn_inputs)
    \/ ReturnToCaller
    \/ CallHook
    \/ CallComputeOutput
    \/ ReturnHook
    \/ Freeze
    \/ \E n \in Nodes : create_variable(n, "default")

SpecLazy == Init /\ [][NextLazy]_vars

LazyCalls == {"relative_network", "__getitem__", "network_variable", "function"}

\* every hook has been invoked once for every node, and the graph frozen once
FullBuildRan ==
    /\ pc = "built"
    /\ \A h \in HookPhases : \A n \in Nodes :
           Cardinality({i \in DOMAIN log : log[i] = Event(h, n)}) = 1
    /\ Cardinality({i \in DOMAIN log : log[i] = Event("freeze", "")}) = 1

NoSecondPass == \A i, j \in DOMAIN log : log[i] = log[j] => i = j

C28_Steps ==
    \* the first call on an unbuilt network starts the build and waits
    /\ (~is_built /\ entry' # NoEntry)
          => (is_built' /\ pc' = "init_long_range_dependencies"
                /\ lastOp' = NoOp)
    \* the waiting call is answered when build() has returned
    /\ (entry # NoEntry /\ entry' = NoEntry)
          => /\ lastOp'.op = entry.op
             /\ pc \in Returned
             /\ lastOp'.ok => FullBuildRan
    \* a build() made while the graph exists changes nothing
    /\ (/\ is_built
        /\ lastOp = NoOp
        /\ lastOp'.op \in {"build", "relative_network", "__getitem__"}
        /\ lastOp'.ok)
          => UNCHANGED <<is_built, pc, idx, inHook, order, log, graphVars,
                         storeVars>>

\* the lazy calls, network_variable on a variable among them, are answered
\* on a built network only
C28_AnyCallBuilds ==
    /\ [](/\ lastOp.op \in LazyCalls => is_built
          /\ entry # NoEntry => is_built
          /\ NoSecondPass)
    /\ [][C28_Steps]_vars

\* C28: the first call of relative_network(), __getitem__, function(), or
\* network_variable() with a node name or a (node name, key) pair, on an
\* unbuilt network runs the full build once before it answers; a
\* build() made while build() runs, or after it, returns at once and
\* starts no second pass, so each hook is invoked at most once per node.
\* network_variable() with any other query answers without building.
C28_LazyBuild ==
    /\ [](/\ (/\ lastOp.op \in LazyCalls
              /\ ~(lastOp.op = "network_variable"
                     /\ lastOp.args.kind = "variable"))
                => is_built
          /\ entry # NoEntry => is_built
          /\ NoSecondPass)
    /\ [][C28_Steps]_vars

\* function() was called on the unbuilt network and the build it started
\* has run every hook once; the call is about to be answered
C28_Witness ==
    /\ entry # NoEntry
    /\ entry.op = "function"
    /\ FullBuildRan
    /\ Idle

----------------------------------------------------------------------------
(* The state-init loop and what follows it (network.py 72-118) on a        *)
(* network with a DenseNode, over the hyperparameter maps the network and  *)
(* its nodes can have been given.                                          *)

InitDense ==
    /\ root_node = DenseTree
    /\ is_built = TRUE
    /\ pc = "init_state"
    /\ idx = 1
    /\ inHook = FALSE
    /\ is_mutable = TRUE
    /\ edges = {}
    /\ order = <<>>
    /\ log = HookEvents("init_long_range_dependencies",
                        architectural_tree_nodes_root_to_leaves)
    /\ rules_written = {}
    /\ entry = NoEntry
    /\ current_variables = [n \in Nodes |-> EmptyMap]
    /\ original_variables = [n \in Nodes |-> EmptyMap]
    /\ additional_data = [n \in Nodes |-> EmptyMap]
    /\ set_hyperparameters = [n \in Nodes |-> EmptyMap]
    /\ inputs = [n \in Nodes |-> EmptyMap]
    /\ update_deltas = EmptyMap
    /\ override_hyperparameters \in PartialMaps(HPKeys, Values)
    /\ default_hyperparameters \in PartialMaps(HPKeys, Values)
    /\ Cardinality(DOMAIN override_hyperparameters)
           + Cardinality(DOMAIN default_hyperparameters) <= MaxEntries
    /\ \E S \in {T \in SUBSET (Nodes \X HPKeys) : Cardinality(T) <= MaxEntries} :
           \E f \in [S -> Values] :
               node_hyperparameters =
                   [n \in Nodes |->
                       [k \in {k2 \in HPKeys : <<n, k2>> \in S} |->
                           f[<<n, k>>]]]
    /\ TotalEntries <= MaxEntries
    /\ lastOp = NoOp

\* the nodes on the path from the DenseNode's linear node to the root
DensePath == {"fc_linear", "fc_sequential", "fc", "seq"}

NextDense ==
    \/ TakeOutcome
    \/ DenseNode_init_state
    \/ HookNode \notin DenseNodes /\ CallHook
    \/ pc # "init_state" /\ CallHook
    \/ CallComputeOutput
    \/ ReturnHook
    \/ Freeze
    \/ /\ pc = "init_state"
       /\ inHook
       /\ HookNode \notin DenseNodes
       /\ TotalEntries < MaxEntries
       /\ \E t \in DensePath : \E k \in HPKeys : \E v \in Values :
              set_hyperparameter(HookNode, t, k, v)
    \/ /\ pc = "init_state"
       /\ inHook
       /\ HookNode \notin DenseNodes
       /\ TotalEntries < MaxEntries
       /\ \E t \in DensePath :
              forward_hyperparameter(HookNode, t, "output_dim",
                                     <<"num_units">>, NoDefaultValue)
    \/ \E n \in {"fc", "fc_linear"} : \E k \in HPKeys :
           find_hyperparameter(n, <<k>>, NoDefaultValue)

SpecDense == InitDense /\ [][NextDense]_vars

\* the state-init loop has run to its end
AfterStateInit ==
    pc = "freeze" \/ \E i \in DOMAIN log : log[i] = Event("freeze", "")

\* "output_dim" is not overridden, and neither the linear node nor the
\* DenseNode's SequentialNode pushes or provides a value for it
NoNearerOutputDim ==
    /\ "output_dim" \notin DOMAIN override_hyperparameters
    /\ \A x \in {"fc_linear", "fc_sequential"} :
           /\ "output_dim" \notin DOMAIN node_hyperparameters[x]
           /\ \A t \in DOMAIN set_hyperparameters[x] :
                  "output_dim" \notin DOMAIN set_hyperparameters[x][t]

\* C29: after the state-init phase, when the DenseNode fc resolves
\* ["num_units"] to v, find_hyperparameter(["output_dim"]) on fc_linear
\* returns v, provided "output_dim" is not in the override map and neither
\* fc_linear nor fc_sequential pushes or provides a value for it.
C29_DenseForwards ==
    (/\ IsFind
     /\ QNode = "fc_linear"
     /\ QKeys = <<"output_dim">>
     /\ AfterStateInit
     /\ NoNearerOutputDim)
    => LET r == find_hyperparameter_result("fc", <<"num_units">>,
                                          NoDefaultValue)
       IN r.ok => lastOp.ok /\ lastOp.val = r.val

\* the linear node was given the DenseNode's num_units although the root
\* had pushed another value for "output_dim" to it
C29_Witness ==
    /\ IsFind
    /\ QNode = "fc_linear"
    /\ QKeys = <<"output_dim">>
    /\ AfterStateInit
    /\ NoNearerOutputDim
    /\ lastOp.ok
    /\ "fc_linear" \in DOMAIN set_hyperparameters["seq"]
    /\ "output_dim" \in DOMAIN set_hyperparameters["seq"]["fc_linear"]
    /\ set_hyperparameters["seq"]["fc_linear"]["output_dim"] # lastOp.val
    /\ find_hyperparameter_result("fc", <<"num_units">>, NoDefaultValue)
          = Found(lastOp.val)

IsForward == lastOp = NoOp /\ lastOp'.op = "forward_hyperparameter"

C30_Steps ==
    \* no tier matches: the call fails and the caller's record is as before
    /\ (/\ IsForward
        /\ AllMatches(lastOp'.node, lastOp'.args[3], NoDefaultValue) = <<>>)
          => /\ ~lastOp'.ok
             /\ lastOp'.val = "MissingHyperparameter"
             /\ set_hyperparameters'[lastOp'.node]
                   = set_hyperparameters[lastOp'.node]
    \* the failure in DenseNode.init_state ends build() before the freeze
    /\ (/\ IsForward
        /\ ~lastOp'.ok
        /\ log' = Append(log, Event("init_state", lastOp'.node)))
          => /\ pc' = "aborted"
             /\ is_mutable'
             /\ \A i \in DOMAIN log' :
                    log'[i].ev \notin {"freeze", "compute_output"}
    /\ pc = "aborted" => (pc' = "aborted" /\ log' = log
                            /\ is_mutable' = is_mutable)
    \* only the caller's record is written
    /\ \A n \in Nodes :
           set_hyperparameters'[n] # set_hyperparameters[n]
           => \/ lastOp'.op = "forward_hyperparameter" /\ lastOp'.node = n
              \/ lastOp'.op = "set_hyperparameter" /\ HookNode = n

\* C30: a forward_hyperparameter whose source keys match no tier fails
\* with MissingHyperparameter and leaves the caller's set_hyperparameters
\* as it was; in an init_state hook the failure ends build() before the
\* graph is frozen and before any compute_output hook runs; neither
\* set_hyperparameter nor forward_hyperparameter writes the record of a
\* node other than the caller.
C30_ForwardFails == [][C30_Steps]_vars

\* the DenseNode's forward has failed in its init_state hook after the
\* root had stored a value, and build() has ended
C30_Witness ==
    /\ lastOp.op = "forward_hyperparameter"
    /\ lastOp.node = "fc"
    /\ ~lastOp.ok
    /\ pc = "aborted"
    /\ set_hyperparameters["seq"] # EmptyMap
    /\ set_hyperparameters["fc"] = EmptyMap

====
